---- MODULE Spec2Model ----
(***************************************************************************)
(* VibeVoice-Docker: the model manager (load / LRU eviction / idle unload  *)
(* of models under a lock), the serialized speech requests of the HTTP     *)
(* front end and the maintenance loop (idle unload, exit on idle).         *)
(*                                                                         *)
(* Two specifications share the manager's actions:                         *)
(*   SpecMgr  threads call ModelManager.get / maybe_unload_idle directly,  *)
(*            with any model id, in any interleaving;                      *)
(*   Spec     the application of main.py: startup, the request middleware, *)
(*            create_speech, _run_inference and _maintenance_loop.         *)
(***************************************************************************)
EXTENDS Integers, Sequences, FiniteSets, TLC

\* ---------------------------------------------------------------- bounds
MaxThreads == 2        \* threads calling the manager in SpecMgr
MaxMgrClock == 2       \* seconds the clock may advance in SpecMgr
MaxLoads == 3          \* from_pretrained invocations per behaviour
MaxMaxLoaded == 2      \* largest VIBEVOICE_MAX_LOADED_MODELS drawn in Init
MaxRequests == 2       \* HTTP requests per behaviour in Spec
MaxAppClock == 2       \* seconds the clock may advance in Spec
MaxTextLen == 5        \* characters of a line's text in SpecText
MaxChars == 4          \* largest VIBEVOICE_SCRIPT_LINE_MAX_CHARS drawn
MaxLines == 2          \* lines of a script in SpecText
MaxQueued == 3         \* speech requests per behaviour in SpecFair
MaxLoopClock == 32     \* seconds the clock may advance in SpecLoop

\* ------------------------------------------------------- program constants
\* the two members of the ModelId literal
ModelIds == {"vibevoice-1.5b", "vibevoice-7b"}
\* a model id outside the literal (resolve_model_path raises ValueError)
UnsupportedId == "unsupported"
AllIds == ModelIds \cup {UnsupportedId}
\* `if now - last_unload_checked_at >= 30`
UnloadCheckInterval == 30
\* time.time() when the process starts: far beyond any window of the program
StartTime == UnloadCheckInterval
\* values of VIBEVOICE_IDLE_UNLOAD_SECONDS drawn in Init; 900 is the default
IdleUnloadChoices == {1, 15 * 60}
\* values of VIBEVOICE_EXIT_ON_IDLE_SECONDS drawn in Init (unset: 0)
ExitOnIdleInputs == {-1, 0, 1}
\* request.url.path of a request: the speech route, another tracked route
\* (for instance GET /v1/voices) or one of the untracked /healthz, /ping
Paths == {"/v1/audio/speech", "/v1/voices", "/healthz"}
\* contents of the models directory drawn in Init: both models downloaded,
\* or only the 1.5B one
DiskChoices == {ModelIds, {"vibevoice-1.5b"}}

\* the event-loop thread (runs the request coroutines and _maintenance_loop)
LoopThread == 0
\* request r is served by the coroutine r; asyncio.to_thread runs its
\* _run_inference on worker thread r
Requests == 1..MaxRequests
\* the worker thread of the to_thread calls of _startup
StartupThread == MaxRequests + 1
MgrThreads == 1..MaxThreads
\* the speech requests of the specification with fair scheduling (SpecFair),
\* which makes no preload: coroutine r and worker thread r, as above
QueueRequests == 1..MaxQueued
Threads ==
  0..(IF MaxThreads > StartupThread /\ MaxThreads > MaxQueued THEN MaxThreads
      ELSE IF StartupThread > MaxQueued THEN StartupThread ELSE MaxQueued)

VARIABLES
  now,                  \* time.time()
  models_on_disk,       \* model ids whose model_path.exists()
  max_loaded_models,    \* ModelManager._max_loaded_models
  idle_unload_seconds,  \* ModelManager._idle_unload_seconds
  loaded,               \* ModelManager._loaded, in dict (insertion) order
  lock,                 \* ModelManager._lock: the set of its holders
  mpc,                  \* position of each thread inside the manager
  marg,                 \* model_id argument of the thread's get call
  mnow,                 \* local `now` of the thread's maybe_unload_idle call
  mlru,                 \* locals lru_id, lru_model of the thread's get call
  mres,                 \* what the thread's last manager call returned/raised
  loadCalls,            \* number of from_pretrained (load path) invocations
  model_id,             \* settings.model_id
  exit_on_idle_seconds, \* settings.exit_on_idle_seconds
  preload_on_startup,   \* settings.preload_on_startup
  warmup_on_preload,    \* settings.warmup_on_preload (and a voice exists)
  spc,                  \* position of _startup
  rpc,                  \* position of each request
  rpath,                \* request.url.path of each request
  rhandle,              \* `loaded` local of the thread's _run_inference
  rerr,                 \* exception of the request's job on its way out
  slot,                 \* _generation_lock: the set of its holders
  slot_waiters,         \* _generation_lock._waiters, in arrival order
  active_user_requests, \* _active_user_requests
  last_user_request_at, \* _last_user_request_at
  seen_user_request,    \* _seen_user_request
  wpc,                  \* position of _maintenance_loop
  wnow,                 \* local `now` of _maintenance_loop
  last_unload_checked_at, \* local last_unload_checked_at
  termRequests,         \* number of _request_process_exit calls
  exitLog,              \* what those calls did to the process, in order
  env_max_chars,        \* os.environ VIBEVOICE_SCRIPT_LINE_MAX_CHARS
  enable_cn_punct_normalize, \* settings.enable_cn_punct_normalize
  script,               \* payload.input, then the `script` of the normalizer
  tpc,                  \* position of the script normalization
  lines,                \* script.splitlines() still to be iterated
  current_speaker_id,   \* local current_speaker_id (NoSpeaker for None)
  speaker_ids,          \* local speaker_ids
  speaker_id,           \* local speaker_id of the line at hand
  out_lines,            \* local out_lines
  max_chars_per_line,   \* local max_chars_per_line
  text,                 \* parameter text of _split_text_by_max_chars
  remaining,            \* its local remaining
  parts,                \* its local parts
  tres                  \* what the normalization returned or raised

cfgVars == <<models_on_disk, max_loaded_models, idle_unload_seconds, model_id,
             exit_on_idle_seconds, preload_on_startup, warmup_on_preload>>
mgrVars == <<loaded, lock, mpc, marg, mnow, mlru, mres, loadCalls>>
reqVars == <<rpc, rpath, rhandle, rerr>>
slotVars == <<slot, slot_waiters>>
activityVars == <<active_user_requests, last_user_request_at, seen_user_request>>
loopVars == <<wpc, wnow, last_unload_checked_at, termRequests, exitLog>>
appVars == <<spc, reqVars, slotVars, activityVars, loopVars>>
textVars == <<env_max_chars, enable_cn_punct_normalize, script, tpc, lines,
              current_speaker_id, speaker_ids, speaker_id, out_lines,
              max_chars_per_line, text, remaining, parts, tres>>
vars == <<now, cfgVars, mgrVars, appVars, textVars>>

\* ------------------------------------------------------------ results
NoResult == [kind |-> "none", handle |-> 0, err |-> "", ids |-> <<>>]
Returned(h) == [kind |-> "handle", handle |-> h, err |-> "", ids |-> <<>>]
ReturnedList(l) == [kind |-> "list", handle |-> 0, err |-> "", ids |-> l]
Raised(e) == [kind |-> "error", handle |-> 0, err |-> e, ids |-> <<>>]

\* ------------------------------------------------------------ helpers
Range(s) == {s[i] : i \in 1..Len(s)}

\* os._exit(0) ends the process at once: none of its threads takes another
\* step
Alive == \A i \in 1..Len(exitLog) : exitLog[i] # "_exit"

\* LoadedModel(model_id, ..., model, last_used_at): `handle` is the identity
\* of the model/processor objects created by one from_pretrained
LoadedModel(id, h, t) == [model_id |-> id, handle |-> h, last_used_at |-> t]

\* lru_id, lru_model before the first eviction of a get call are unbound
NoEntry == LoadedModel("", 0, 0)

\* self._max_loaded_models = max(1, int(max_loaded_models))
ClampMaxLoaded(n) == IF n > 1 THEN n ELSE 1

\* position of model_id in self._loaded, 0 when self._loaded.get is None
IndexOf(items, id) ==
  IF \E i \in 1..Len(items) : items[i].model_id = id
  THEN CHOOSE i \in 1..Len(items) : items[i].model_id = id
  ELSE 0

\* the comparison min() uses to replace its current best
KeyLessAlt(a, b) == a.last_used_at <= b.last_used_at
KeyLess(a, b) == a.last_used_at < b.last_used_at

RECURSIVE min_fold(_, _, _)
min_fold(items, best, i) ==
  IF i > Len(items) THEN best
  ELSE min_fold(items, IF KeyLess(items[i], items[best]) THEN i ELSE best, i + 1)

\* min(self._loaded.items(), key=lambda kv: kv[1].last_used_at): the first
\* entry in dict order among those with the smallest last_used_at
min_item(items) == min_fold(items, 1, 2)

\* self._loaded.pop(model_id, None)
Pop(items, id) ==
  LET Keep(e) == e.model_id # id IN SelectSeq(items, Keep)

\* the loop condition of get: len(self._loaded) >= self._max_loaded_models
OverCapacityAlt(items, max) == Len(items) > max
OverCapacity(items, max) == Len(items) >= max

\* not (now - loaded.last_used_at < self._idle_unload_seconds)
IsIdleAlt(e, t, window) == t - e.last_used_at > window
IsIdle(e, t, window) == ~(t - e.last_used_at < window)

\* ------------------------------------------------------------ Init
\* ModelManager.__init__; nothing is loaded when the process starts
ManagerInit ==
  /\ now = StartTime
  /\ loaded = <<>>
  /\ lock = {}
  /\ mpc = [t \in Threads |-> "idle"]
  /\ marg = [t \in Threads |-> UnsupportedId]
  /\ mnow = [t \in Threads |-> 0]
  /\ mlru = [t \in Threads |-> NoEntry]
  /\ mres = [t \in Threads |-> NoResult]
  /\ loadCalls = 0

\* ------------------------------------------------- ModelManager.get
\* the call: the thread starts waiting for self._lock
GetCall(t, id) ==
  /\ mpc[t] = "idle"
  /\ mpc' = [mpc EXCEPT ![t] = "get_lock"]
  /\ marg' = [marg EXCEPT ![t] = id]
  /\ UNCHANGED <<loaded, lock, mnow, mlru, mres, loadCalls>>

\* what a hit writes: loaded.last_used_at = time.time()
TouchAlt(items, i, t) == [j \in 1..Len(items) |-> [items[j] EXCEPT !.last_used_at = t]]
Touch(items, i, t) == [items EXCEPT ![i].last_used_at = t]

\* threading.Lock: `with self._lock` goes on only when no thread holds it
LockFreeAlt == TRUE
LockFree == lock = {}

\* with self._lock: loaded = self._loaded.get(model_id); a hit refreshes
\* last_used_at and returns the cached LoadedModel, releasing the lock
GetAcquire(t) ==
  /\ Alive
  /\ mpc[t] = "get_lock"
  /\ LockFree
  /\ LET i == IndexOf(loaded, marg[t]) IN
       IF i # 0
       THEN /\ loaded' = Touch(loaded, i, now)
            /\ mres' = [mres EXCEPT ![t] = Returned(loaded[i].handle)]
            /\ mpc' = [mpc EXCEPT ![t] = "returned"]
            /\ UNCHANGED lock
       ELSE /\ lock' = {t}
            /\ mpc' = [mpc EXCEPT ![t] = "get_evict"]
            /\ UNCHANGED <<loaded, mres>>
  /\ UNCHANGED <<marg, mnow, mlru, loadCalls>>
  /\ UNCHANGED <<now, cfgVars, textVars, appVars>>

\* model_path = self.resolve_model_path(model_id); model_path.exists():
\* ValueError, FileNotFoundError, or on to the load path
GetResolve(t) ==
  IF marg[t] \notin ModelIds
  THEN /\ lock' = {}
       /\ mpc' = [mpc EXCEPT ![t] = "returned"]
       /\ mres' = [mres EXCEPT ![t] = Raised("ValueError")]
  ELSE IF marg[t] \notin models_on_disk
  THEN /\ lock' = {}
       /\ mpc' = [mpc EXCEPT ![t] = "returned"]
       /\ mres' = [mres EXCEPT ![t] = Raised("FileNotFoundError")]
  ELSE /\ mpc' = [mpc EXCEPT ![t] = "get_load"]
       /\ UNCHANGED <<lock, mres>>

\* one test of `while len(self._loaded) >= self._max_loaded_models` and, when
\* it holds, one _unload_locked of the min() entry; gc.collect() /
\* torch.cuda.empty_cache() in its finally block may raise, which leaves get.
\* When the test fails the path is resolved and checked (GetResolve)
GetEvict(t) ==
  /\ Alive
  /\ mpc[t] = "get_evict"
  /\ lock = {t}
  /\ IF OverCapacity(loaded, max_loaded_models)
     THEN /\ mlru' = [mlru EXCEPT ![t] = loaded[min_item(loaded)]]
          /\ loaded' = Pop(loaded, loaded[min_item(loaded)].model_id)
          /\ \E reclaimFails \in BOOLEAN :
               IF reclaimFails
               THEN /\ lock' = {}
                    /\ mpc' = [mpc EXCEPT ![t] = "returned"]
                    /\ mres' = [mres EXCEPT ![t] = Raised("ReclaimError")]
               ELSE UNCHANGED <<lock, mpc, mres>>
     ELSE /\ UNCHANGED <<loaded, mlru>>
          /\ GetResolve(t)
  /\ UNCHANGED <<marg, mnow, loadCalls>>
  /\ UNCHANGED <<now, cfgVars, textVars, appVars>>

\* self._loaded[model_id] = loaded follows the last call that may raise: a
\* load that fails leaves the mapping as it was
LoadedAfterFailureAlt(t) == Append(loaded, LoadedModel(marg[t], 0, now))
LoadedAfterFailure(t) == loaded

\* the load path: from_pretrained either raises (propagated) or yields new
\* processor/model objects, stored as self._loaded[model_id] and returned
GetLoad(t) ==
  /\ Alive
  /\ mpc[t] = "get_load"
  /\ lock = {t}
  /\ loadCalls' = loadCalls + 1
  /\ \E loadFails \in BOOLEAN :
       IF loadFails
       THEN /\ mres' = [mres EXCEPT ![t] = Raised("LoadFailure")]
            /\ loaded' = LoadedAfterFailure(t)
       ELSE /\ loaded' = Append(loaded, LoadedModel(marg[t], loadCalls', now))
            /\ mres' = [mres EXCEPT ![t] = Returned(loadCalls')]
  /\ lock' = {}
  /\ mpc' = [mpc EXCEPT ![t] = "returned"]
  /\ UNCHANGED <<marg, mnow, mlru>>
  /\ UNCHANGED <<now, cfgVars, textVars, appVars>>

\* -------------------------------------- ModelManager.maybe_unload_idle
\* now = time.time(); unloaded = []; then the thread waits for self._lock
UnloadCall(t) ==
  /\ mpc[t] = "idle"
  /\ mpc' = [mpc EXCEPT ![t] = "unload_lock"]
  /\ mnow' = [mnow EXCEPT ![t] = now]
  /\ UNCHANGED <<loaded, lock, marg, mlru, mres, loadCalls>>

UnloadAcquire(t) ==
  /\ Alive
  /\ mpc[t] = "unload_lock"
  /\ LockFree
  /\ lock' = {t}
  /\ mpc' = [mpc EXCEPT ![t] = "unload_run"]
  /\ UNCHANGED <<loaded, marg, mnow, mlru, mres, loadCalls>>
  /\ UNCHANGED <<now, cfgVars, textVars, appVars>>

\* the entries the loop over list(self._loaded.items()) unloads, in order
IdleEntries(items, t, window) ==
  LET Idle(e) == IsIdle(e, t, window) IN SelectSeq(items, Idle)

\* the first k elements of a sequence
Prefix(s, k) == SubSeq(s, 1, k)

\* the loop under the lock: every idle entry is unloaded and appended to
\* `unloaded`; a reclamation that raises inside _unload_locked ends the loop
\* after failAt entries were popped (failAt = 0: none raised)
UnloadRun(t) ==
  /\ Alive
  /\ mpc[t] = "unload_run"
  /\ lock = {t}
  /\ LET idle == IdleEntries(loaded, mnow[t], idle_unload_seconds) IN
     \E failAt \in 0..Len(idle) :
       IF failAt = 0
       THEN /\ loaded' = SelectSeq(loaded, LAMBDA e : e \notin Range(idle))
            /\ mres' = [mres EXCEPT ![t] =
                          ReturnedList([i \in 1..Len(idle) |-> idle[i].model_id])]
       ELSE /\ loaded' = SelectSeq(loaded,
                            LAMBDA e : e \notin Range(Prefix(idle, failAt)))
            /\ mres' = [mres EXCEPT ![t] = Raised("ReclaimError")]
  /\ lock' = {}
  /\ mpc' = [mpc EXCEPT ![t] = "returned"]
  /\ UNCHANGED <<marg, mnow, mlru, loadCalls>>
  /\ UNCHANGED <<now, cfgVars, textVars, appVars>>

\* ------------------------------------------------ the caller resumes
\* the caller takes the value or exception of its manager call; the frame's
\* locals (model_id, now) are gone
TakeResult(t) ==
  /\ mpc[t] = "returned"
  /\ mpc' = [mpc EXCEPT ![t] = "idle"]
  /\ marg' = [marg EXCEPT ![t] = UnsupportedId]
  /\ mnow' = [mnow EXCEPT ![t] = 0]
  /\ mlru' = [mlru EXCEPT ![t] = NoEntry]
  /\ mres' = [mres EXCEPT ![t] = NoResult]
  /\ UNCHANGED <<loaded, lock, loadCalls>>

\* -------------------------------------------- no script in the works
\* current_speaker_id: int | None = None
NoSpeaker == -1

\* VIBEVOICE_SCRIPT_LINE_MAX_CHARS: not set, not an integer, or an integer
EnvUnset == [kind |-> "unset", value |-> 0]
EnvInvalid == [kind |-> "invalid", value |-> 0]
EnvInt(n) == [kind |-> "int", value |-> n]

\* the locals of normalize_single_speaker_script and of
\* _split_text_by_max_chars outside a call
TextLocalsIdle ==
  /\ lines = <<>>
  /\ current_speaker_id = NoSpeaker
  /\ speaker_ids = {}
  /\ speaker_id = NoSpeaker
  /\ out_lines = <<>>
  /\ max_chars_per_line = 0
  /\ text = <<>>
  /\ remaining = <<>>
  /\ parts = <<>>
  /\ tres = [kind |-> "none", err |-> "", value |-> <<>>]

\* no speech request with a script is being looked at
TextIdle ==
  /\ env_max_chars = EnvUnset
  /\ enable_cn_punct_normalize = FALSE
  /\ script = <<>>
  /\ tpc = "idle"
  /\ TextLocalsIdle

\* ------------------------------------------------------------ settings
\* exit_on_idle_seconds = max(0, _env_int(...))
ClampExitOnIdle(n) == IF n > 0 THEN n ELSE 0

\* module-level state of main.py before _startup runs, with the requests
\* that are going to arrive
AppStateFor(reqs) ==
  /\ spc = "init"
  /\ rpc = [r \in reqs |-> "new"]
  /\ rpath = [r \in reqs |-> ""]
  /\ rhandle = [t \in Threads |-> 0]
  /\ rerr = [r \in reqs |-> ""]
  /\ slot = {}
  /\ slot_waiters = <<>>
  /\ active_user_requests = 0
  /\ last_user_request_at = StartTime
  /\ seen_user_request = FALSE
  /\ wpc = "off"
  /\ wnow = 0
  /\ last_unload_checked_at = 0
  /\ termRequests = 0
  /\ exitLog = <<>>

AppStateInit == AppStateFor(Requests)

\* Settings.load() and the module-level construction of main.py; the models
\* directory holds the 1.5B model only, so that the configured model is
\* either present or missing; VIBEVOICE_IDLE_UNLOAD_SECONDS is 1, so that a
\* model can be found idle, or still fresh, within MaxAppClock seconds;
\* warmup_on_preload is read only after a preload
Init ==
  /\ ManagerInit
  /\ AppStateInit
  /\ TextIdle
  /\ models_on_disk = {"vibevoice-1.5b"}
  /\ max_loaded_models = ClampMaxLoaded(1)
  /\ idle_unload_seconds = 1
  /\ model_id \in ModelIds
  /\ \E n \in ExitOnIdleInputs : exit_on_idle_seconds = ClampExitOnIdle(n)
  /\ preload_on_startup \in BOOLEAN
  /\ warmup_on_preload \in (IF preload_on_startup THEN BOOLEAN ELSE {TRUE})

\* a ModelManager built directly, with any max_loaded_models argument
MgrInit ==
  /\ ManagerInit
  /\ AppStateInit
  /\ TextIdle
  /\ models_on_disk \in DiskChoices
  /\ \E n \in 0..MaxMaxLoaded : max_loaded_models = ClampMaxLoaded(n)
  /\ idle_unload_seconds \in IdleUnloadChoices
  /\ model_id = "vibevoice-1.5b"
  /\ exit_on_idle_seconds = 0
  /\ preload_on_startup = FALSE
  /\ warmup_on_preload = FALSE

\* --------------------------------------------------------- _startup
\* the maintenance task is created last: asyncio.create_task(_maintenance_loop())
\* and the loop starts with await asyncio.sleep(1)
StartServing ==
  /\ spc' = "serving"
  /\ wpc' = "sleep"
  /\ UNCHANGED <<wnow, last_unload_checked_at, termRequests, exitLog>>

\* if settings.preload_on_startup: await asyncio.to_thread(model_manager.get, ...)
StartupBegin ==
  /\ Alive
  /\ spc = "init"
  /\ IF preload_on_startup
     THEN /\ GetCall(StartupThread, model_id)
          /\ spc' = "preload_get"
          /\ UNCHANGED loopVars
     ELSE /\ StartServing
          /\ UNCHANGED mgrVars
  /\ UNCHANGED <<now, cfgVars, textVars, reqVars, slotVars, activityVars>>

\* the preload returned or raised (except Exception: pass); with warm-up
\* enabled _run_inference is started on a worker and calls get again
StartupPreloaded ==
  /\ Alive
  /\ spc = "preload_get"
  /\ mpc[StartupThread] = "returned"
  /\ IF mres[StartupThread].kind = "handle" /\ warmup_on_preload
     THEN /\ mpc' = [mpc EXCEPT ![StartupThread] = "get_lock"]
          /\ mres' = [mres EXCEPT ![StartupThread] = NoResult]
          /\ spc' = "warmup_get"
          /\ UNCHANGED <<loaded, lock, marg, mnow, mlru, loadCalls, loopVars>>
     ELSE /\ TakeResult(StartupThread)
          /\ StartServing
  /\ UNCHANGED <<now, cfgVars, textVars, reqVars, slotVars, activityVars>>

\* loaded = model_manager.get(model_id) inside the warm-up _run_inference
StartupWarmupGet ==
  /\ Alive
  /\ spc = "warmup_get"
  /\ mpc[StartupThread] = "returned"
  /\ TakeResult(StartupThread)
  /\ IF mres[StartupThread].kind = "handle"
     THEN /\ spc' = "warmup_generate"
          /\ rhandle' = [rhandle EXCEPT ![StartupThread] = mres[StartupThread].handle]
          /\ UNCHANGED loopVars
     ELSE /\ StartServing
          /\ UNCHANGED rhandle
  /\ UNCHANGED <<now, cfgVars, textVars, rpc, rpath, rerr, slotVars, activityVars>>

\* model.generate of the warm-up returns or raises; both end _startup
StartupWarmupDone ==
  /\ Alive
  /\ spc = "warmup_generate"
  /\ rhandle' = [rhandle EXCEPT ![StartupThread] = 0]
  /\ StartServing
  /\ UNCHANGED <<now, cfgVars, textVars, mgrVars, rpc, rpath, rerr, slotVars, activityVars>>

\* ------------------------------------------------ the event loop
\* coroutines run on the event-loop thread, one at a time; none runs while
\* the thread is inside the synchronous model_manager.maybe_unload_idle()
EventLoopFree == wpc # "unload"

\* --------------------------------------------- _log_http_requests
\* track_for_idle = request.url.path not in {"/healthz", "/ping"}
TrackForIdleAlt(path) == path # "/healthz"
TrackForIdle(path) == path \notin {"/healthz", "/ping"}

\* the middleware up to `await call_next(request)`; requests are numbered
\* in the order in which they arrive
RequestStart(r, path) ==
  /\ Alive
  /\ spc = "serving"
  /\ EventLoopFree
  /\ rpc[r] = "new"
  /\ \A q \in DOMAIN rpc : q < r => rpc[q] # "new"
  /\ rpath' = [rpath EXCEPT ![r] = path]
  /\ rpc' = [rpc EXCEPT ![r] = "handler"]
  /\ IF TrackForIdle(path)
     THEN /\ seen_user_request' = TRUE
          /\ active_user_requests' = active_user_requests + 1
          /\ last_user_request_at' = now
     ELSE UNCHANGED activityVars
  /\ UNCHANGED <<now, cfgVars, textVars, mgrVars, spc, rhandle, rerr, slotVars, loopVars>>

\* _active_user_requests = max(0, _active_user_requests - 1)
DecrementActiveAlt(n) == n
DecrementActive(n) == IF n - 1 > 0 THEN n - 1 ELSE 0

\* _last_user_request_at = time.time() in the `finally` of the middleware,
\* given the time t of that moment
LastRequestAtFinishAlt(t) == last_user_request_at
LastRequestAtFinish(t) == t

\* call_next returned or raised, for the speech route after create_speech
\* ended, and the `finally` of the middleware runs
RequestFinish(r) ==
  /\ Alive
  /\ EventLoopFree
  /\ \/ rpc[r] = "finishing"
     \/ rpc[r] = "handler" /\ rpath[r] # "/v1/audio/speech"
  /\ rpc' = [rpc EXCEPT ![r] = "done"]
  /\ rpath' = [rpath EXCEPT ![r] = ""]
  /\ rerr' = [rerr EXCEPT ![r] = ""]
  /\ IF TrackForIdle(rpath[r])
     THEN /\ active_user_requests' = DecrementActive(active_user_requests)
          /\ last_user_request_at' = LastRequestAtFinish(now)
          /\ UNCHANGED seen_user_request
     ELSE UNCHANGED activityVars
  /\ UNCHANGED <<now, cfgVars, textVars, mgrVars, spc, rhandle, slotVars, loopVars>>

\* ------------------------------------------------- create_speech
\* asyncio.Lock.acquire takes the lock at once only when it is unlocked and
\* nobody waits for it
SlotFreeAlt == TRUE
SlotFree == slot = {} /\ slot_waiters = <<>>

\* await asyncio.to_thread(_run_inference, ...): the worker thread of the
\* request enters _run_inference, whose first statement is model_manager.get
StartJob(r) ==
  /\ GetCall(r, model_id)
  /\ rpc' = [rpc EXCEPT ![r] = "job_get"]

\* create_speech up to `async with _generation_lock`: an unknown voice or an
\* invalid script ends the request with an error response; otherwise the
\* coroutine takes the lock and starts the job, or queues for the lock
SpeechHandler(r) ==
  /\ Alive
  /\ EventLoopFree
  /\ rpc[r] = "handler"
  /\ rpath[r] = "/v1/audio/speech"
  /\ \E valid \in BOOLEAN :
       IF ~valid
       THEN /\ rpc' = [rpc EXCEPT ![r] = "finishing"]
            /\ UNCHANGED <<mgrVars, slotVars>>
       ELSE IF SlotFree
       THEN /\ slot' = slot \cup {r}
            /\ StartJob(r)
            /\ UNCHANGED slot_waiters
       ELSE /\ slot_waiters' = Append(slot_waiters, r)
            /\ rpc' = [rpc EXCEPT ![r] = "wait_slot"]
            /\ UNCHANGED <<mgrVars, slot>>
  /\ UNCHANGED <<now, cfgVars, textVars, spc, rpath, rhandle, rerr, activityVars, loopVars>>

\* asyncio.Lock.release wakes the waiter that has waited longest
NextWaiterAlt(waiters) == waiters[Len(waiters)]
NextWaiter(waiters) == Head(waiters)

\* the first waiter, woken by the release, takes the lock and starts its job
SlotGrant(r) ==
  /\ Alive
  /\ EventLoopFree
  /\ rpc[r] = "wait_slot"
  /\ slot = {}
  /\ slot_waiters # <<>>
  /\ NextWaiter(slot_waiters) = r
  /\ slot' = {r}
  /\ slot_waiters' = Tail(slot_waiters)
  /\ StartJob(r)
  /\ UNCHANGED <<now, cfgVars, textVars, spc, rpath, rhandle, rerr, activityVars, loopVars>>

\* loaded = model_manager.get(model_id): the LoadedModel whose processor and
\* model the job uses
JobHandleAlt(res) == 0
JobHandle(res) == res.handle

\* _run_inference on the worker: get returned the LoadedModel (the job goes
\* on with loaded.processor / loaded.model) or raised
JobGetReturn(r) ==
  /\ Alive
  /\ rpc[r] = "job_get"
  /\ mpc[r] = "returned"
  /\ TakeResult(r)
  /\ IF mres[r].kind = "handle"
     THEN /\ rpc' = [rpc EXCEPT ![r] = "generate"]
          /\ rhandle' = [rhandle EXCEPT ![r] = JobHandle(mres[r])]
          /\ UNCHANGED rerr
     ELSE /\ rpc' = [rpc EXCEPT ![r] = "job_raised"]
          /\ rerr' = [rerr EXCEPT ![r] = mres[r].err]
          /\ UNCHANGED rhandle
  /\ UNCHANGED <<now, cfgVars, textVars, spc, rpath, slotVars, activityVars, loopVars>>

\* processor(...) and model.generate(...) end: audio, or an exception
\* (RuntimeError("No audio generated") or one of the runtime)
JobGenerate(r) ==
  /\ Alive
  /\ rpc[r] = "generate"
  /\ \E ok \in BOOLEAN :
       /\ rpc' = [rpc EXCEPT ![r] = IF ok THEN "job_done" ELSE "job_raised"]
       /\ rerr' = [rerr EXCEPT ![r] = IF ok THEN "" ELSE "RuntimeError"]
  /\ rhandle' = [rhandle EXCEPT ![r] = 0]
  /\ UNCHANGED <<now, cfgVars, textVars, mgrVars, spc, rpath, slotVars, activityVars,
                 loopVars>>

\* _generation_lock.release() in the __aexit__ of `async with`, which runs
\* when the block ends and when an exception leaves it
SlotAfterAlt(r) == IF rpc[r] = "job_done" THEN slot \ {r} ELSE slot
SlotAfter(r) == slot \ {r}

\* the coroutine resumes from to_thread: `async with` releases the lock;
\* the response is encoded, or the exception of the job (there is no
\* try/except around the await) propagates to the middleware
SpeechResume(r) ==
  /\ Alive
  /\ EventLoopFree
  /\ rpc[r] \in {"job_done", "job_raised"}
  /\ slot' = SlotAfter(r)
  /\ rpc' = [rpc EXCEPT ![r] = "finishing"]
  /\ UNCHANGED <<now, cfgVars, textVars, mgrVars, spc, rpath, rhandle, rerr, slot_waiters,
                 activityVars, loopVars>>

\* ---------------------------------------------- _request_process_exit
\* try: os.kill(os.getpid(), signal.SIGTERM) / except Exception: os._exit(0)
\* -- the effects of one call on the process, given whether os.kill raises
_request_process_exitAlt(killRaises) == <<"SIGTERM", "_exit">>
_request_process_exit(killRaises) ==
  IF killRaises THEN <<"kill_raised", "_exit">> ELSE <<"SIGTERM">>

\* ---------------------------------------------- _maintenance_loop
\* the four `continue` tests before _request_process_exit()
ShouldExitNoActive(n) ==
  /\ ~(exit_on_idle_seconds <= 0)
  /\ seen_user_request
  /\ ~(n - last_user_request_at < exit_on_idle_seconds)
ShouldExitNoDisable(n) ==
  /\ seen_user_request
  /\ ~(active_user_requests > 0)
  /\ ~(n - last_user_request_at < exit_on_idle_seconds)
ShouldExitLate(n) ==
  /\ ~(exit_on_idle_seconds <= 0)
  /\ seen_user_request
  /\ ~(active_user_requests > 0)
  /\ ~(n - last_user_request_at <= exit_on_idle_seconds)
ShouldExit(n) ==
  /\ ~(exit_on_idle_seconds <= 0)
  /\ seen_user_request
  /\ ~(active_user_requests > 0)
  /\ ~(n - last_user_request_at < exit_on_idle_seconds)

\* the rest of an iteration: _request_process_exit() and return, or
\* continue with the next await asyncio.sleep(1)
ShutdownCheck(n) ==
  /\ IF ShouldExit(n)
     THEN /\ termRequests' = termRequests + 1
          /\ \E killRaises \in BOOLEAN :
               exitLog' = exitLog \o _request_process_exit(killRaises)
          /\ wpc' = "done"
     ELSE /\ wpc' = "sleep"
          /\ UNCHANGED <<termRequests, exitLog>>
  /\ wnow' = 0

\* if now - last_unload_checked_at >= 30.0
UnloadDueAlt(n) == n - last_unload_checked_at > UnloadCheckInterval
UnloadDue(n) == n - last_unload_checked_at >= UnloadCheckInterval

\* one iteration after the sleep: now = time.time(), the 30 s test and the
\* call of maybe_unload_idle (which blocks this thread until it returns)
Tick ==
  /\ Alive
  /\ wpc = "ready"
  /\ IF UnloadDue(now)
     THEN /\ last_unload_checked_at' = now
          /\ wnow' = now
          /\ UnloadCall(LoopThread)
          /\ wpc' = "unload"
          /\ UNCHANGED <<termRequests, exitLog>>
     ELSE /\ ShutdownCheck(now)
          /\ UNCHANGED <<last_unload_checked_at, mgrVars>>
  /\ UNCHANGED <<now, cfgVars, textVars, spc, reqVars, slotVars, activityVars>>

\* try: model_manager.maybe_unload_idle() / except Exception: pass -- the
\* exceptions of the call that the handler catches
SwallowedAlt(res) == FALSE
Swallowed(res) == res.kind = "error"

\* maybe_unload_idle returned or raised; an exception that is not caught
\* would end the task of the loop
TickResume ==
  /\ Alive
  /\ wpc = "unload"
  /\ mpc[LoopThread] = "returned"
  /\ TakeResult(LoopThread)
  /\ IF mres[LoopThread].kind = "error" /\ ~Swallowed(mres[LoopThread])
     THEN /\ wpc' = "crashed"
          /\ wnow' = 0
          /\ UNCHANGED <<termRequests, exitLog>>
     ELSE ShutdownCheck(wnow)
  /\ UNCHANGED <<now, cfgVars, textVars, spc, reqVars, slotVars, activityVars,
                 last_unload_checked_at>>

\* ------------------------------------------------------------ the clock
\* a second passes; a pending asyncio.sleep(1) has then expired
Second ==
  /\ now' = now + 1
  /\ wpc' = (IF wpc = "sleep" THEN "ready" ELSE wpc)
  /\ UNCHANGED <<cfgVars, textVars, mgrVars, spc, reqVars, slotVars, activityVars,
                 wnow, last_unload_checked_at, termRequests, exitLog>>

Clock ==
  /\ Alive
  /\ now < StartTime + MaxAppClock
  /\ Second

MgrClock ==
  /\ now < StartTime + MaxMgrClock
  /\ now' = now + 1
  /\ UNCHANGED <<cfgVars, textVars, mgrVars, appVars>>

\* ------------------------------------------------------------ Spec
Next ==
  \/ StartupBegin
  \/ StartupPreloaded
  \/ StartupWarmupGet
  \/ StartupWarmupDone
  \/ \E r \in Requests, path \in Paths : RequestStart(r, path)
  \/ \E r \in Requests : SpeechHandler(r)
  \/ \E r \in Requests : SlotGrant(r)
  \/ \E r \in Requests : JobGetReturn(r)
  \/ \E r \in Requests : JobGenerate(r)
  \/ \E r \in Requests : SpeechResume(r)
  \/ \E r \in Requests : RequestFinish(r)
  \/ \E t \in Threads : GetAcquire(t)
  \/ \E t \in Threads : GetEvict(t)
  \/ \E t \in Threads : GetLoad(t)
  \/ \E t \in Threads : UnloadAcquire(t)
  \/ \E t \in Threads : UnloadRun(t)
  \/ Tick
  \/ TickResume
  \/ Clock

Spec == Init /\ [][Next]_vars

\* ------------------------------------------------------------ SpecMgr
\* a thread calls model_manager.get(id)
MgrGet(t, id) ==
  /\ loadCalls < MaxLoads
  /\ GetCall(t, id)
  /\ UNCHANGED <<now, cfgVars, textVars, appVars>>

\* a thread calls model_manager.maybe_unload_idle()
MgrUnload(t) ==
  /\ UnloadCall(t)
  /\ UNCHANGED <<now, cfgVars, textVars, appVars>>

\* the call returns to the thread
MgrReturn(t) ==
  /\ TakeResult(t)
  /\ UNCHANGED <<now, cfgVars, textVars, appVars>>

MgrNext ==
  \/ \E t \in MgrThreads, id \in AllIds : MgrGet(t, id)
  \/ \E t \in MgrThreads : GetAcquire(t)
  \/ \E t \in MgrThreads : GetEvict(t)
  \/ \E t \in MgrThreads : GetLoad(t)
  \/ \E t \in MgrThreads : MgrUnload(t)
  \/ \E t \in MgrThreads : UnloadAcquire(t)
  \/ \E t \in MgrThreads : UnloadRun(t)
  \/ \E t \in MgrThreads : MgrReturn(t)
  \/ MgrClock

SpecMgr == MgrInit /\ [][MgrNext]_vars

\* ------------------------------------------------------------ SpecLoop
\* the application without preload over MaxLoopClock seconds, long enough
\* for the idle-unload check to come round again, with a request to a route
\* other than the speech route and a health probe after it
HealthPaths == {"/healthz", "/ping"}

LoopInit ==
  /\ ManagerInit
  /\ AppStateInit
  /\ TextIdle
  /\ models_on_disk = {"vibevoice-1.5b"}
  /\ max_loaded_models = ClampMaxLoaded(1)
  /\ idle_unload_seconds = 1
  /\ model_id = "vibevoice-1.5b"
  /\ \E n \in ExitOnIdleInputs : exit_on_idle_seconds = ClampExitOnIdle(n)
  /\ preload_on_startup = FALSE
  /\ warmup_on_preload = TRUE

LoopClock ==
  /\ Alive
  /\ now < StartTime + MaxLoopClock
  /\ Second

LoopNext ==
  \/ StartupBegin
  \/ \E path \in {"/v1/voices"} \cup HealthPaths : RequestStart(1, path)
  \/ \E path \in HealthPaths : RequestStart(2, path)
  \/ \E r \in {1, 2} : RequestFinish(r)
  \/ \E t \in Threads : UnloadAcquire(t)
  \/ \E t \in Threads : UnloadRun(t)
  \/ Tick
  \/ TickResume
  \/ LoopClock

SpecLoop == LoopInit /\ [][LoopNext]_vars

\* ------------------------------------------------------------ SpecFair
\* the application without preload and with exit-on-idle disabled (the
\* default), serving MaxQueued requests to the speech route, with the
\* scheduling of the event loop and of the worker threads
FairInit ==
  /\ ManagerInit
  /\ AppStateFor(QueueRequests)
  /\ TextIdle
  /\ models_on_disk = {"vibevoice-1.5b"}
  /\ max_loaded_models = ClampMaxLoaded(1)
  /\ idle_unload_seconds = 1
  /\ model_id \in ModelIds
  /\ exit_on_idle_seconds = ClampExitOnIdle(0)
  /\ preload_on_startup = FALSE
  /\ warmup_on_preload = TRUE

\* the second that ends the first asyncio.sleep(1) of the maintenance loop
\* passes before the first request arrives: the requests then run along
\* with the first iteration of the loop, which calls maybe_unload_idle
FairClock ==
  /\ now = StartTime
  /\ \A r \in QueueRequests : rpc[r] = "new"
  /\ Clock

FairNext ==
  \/ StartupBegin
  \/ \E r \in QueueRequests : RequestStart(r, "/v1/audio/speech")
  \/ \E r \in QueueRequests : SpeechHandler(r)
  \/ \E r \in QueueRequests : SlotGrant(r)
  \/ \E r \in QueueRequests : JobGetReturn(r)
  \/ \E r \in QueueRequests : JobGenerate(r)
  \/ \E r \in QueueRequests : SpeechResume(r)
  \/ \E r \in QueueRequests : RequestFinish(r)
  \/ \E t \in Threads : GetAcquire(t)
  \/ \E t \in Threads : GetEvict(t)
  \/ \E t \in Threads : GetLoad(t)
  \/ \E t \in Threads : UnloadAcquire(t)
  \/ \E t \in Threads : UnloadRun(t)
  \/ Tick
  \/ TickResume
  \/ FairClock

\* a coroutine that can run is run by the event loop, a thread that can go
\* on does go on, a call of the runtime (from_pretrained, generate) ends
Fairness ==
  /\ \A r \in QueueRequests :
       /\ WF_vars(SlotGrant(r))
       /\ WF_vars(JobGetReturn(r))
       /\ WF_vars(JobGenerate(r))
       /\ WF_vars(SpeechResume(r))
  /\ \A t \in Threads :
       /\ WF_vars(GetAcquire(t))
       /\ WF_vars(GetEvict(t))
       /\ WF_vars(GetLoad(t))
       /\ WF_vars(UnloadAcquire(t))
       /\ WF_vars(UnloadRun(t))
  /\ WF_vars(TickResume)

SpecFair == FairInit /\ [][FairNext]_vars /\ Fairness

\* =================================================================
\* text_normalize.py: strings are sequences of characters
\* =================================================================
\* a character above U+007F is written by its code point
CJKChar == "U+4E2D"

\* str.strip(), str.splitlines(): the whitespace of the scripts at hand
IsSpace(c) == c \in {" ", "\n"}

RECURSIVE lstrip(_)
lstrip(s) == IF s # <<>> /\ IsSpace(Head(s)) THEN lstrip(Tail(s)) ELSE s

RECURSIVE rstrip(_)
rstrip(s) ==
  IF s # <<>> /\ IsSpace(s[Len(s)]) THEN rstrip(SubSeq(s, 1, Len(s) - 1)) ELSE s

strip(s) == rstrip(lstrip(s))

\* index of the first c in s at or after i, 0 when there is none
RECURSIVE find(_, _, _)
find(s, c, i) ==
  IF i > Len(s) THEN 0 ELSE IF s[i] = c THEN i ELSE find(s, c, i + 1)

RECURSIVE splitlines(_)
splitlines(s) ==
  IF s = <<>> THEN <<>>
  ELSE LET i == find(s, "\n", 1) IN
       IF i = 0 THEN <<s>>
       ELSE <<SubSeq(s, 1, i - 1)>> \o splitlines(SubSeq(s, i + 1, Len(s)))

\* "\n".join(lines)
RECURSIVE join(_)
join(ls) ==
  IF ls = <<>> THEN <<>>
  ELSE IF Len(ls) = 1 THEN ls[1]
  ELSE ls[1] \o <<"\n">> \o join(Tail(ls))

\* "".join(parts)
RECURSIVE concat(_)
concat(ps) == IF ps = <<>> THEN <<>> ELSE Head(ps) \o concat(Tail(ps))

\* ------------------------------------------------ _SPEAKER_LINE_RE
\* re.IGNORECASE, for the letters of the pattern
Lower(c) ==
  CASE c = "S" -> "s" [] c = "P" -> "p" [] c = "E" -> "e" [] c = "A" -> "a"
    [] c = "K" -> "k" [] c = "R" -> "r" [] OTHER -> c

SpeakerWord == <<"s", "p", "e", "a", "k", "e", "r">>
Digits == <<"0", "1", "2", "3", "4", "5", "6", "7", "8", "9">>
IsDigit(c) == \E k \in 1..Len(Digits) : Digits[k] = c

\* \s* and \d+ from position i: the position after the run
RECURSIVE SkipSpace(_, _)
SkipSpace(s, i) ==
  IF i <= Len(s) /\ IsSpace(s[i]) THEN SkipSpace(s, i + 1) ELSE i

RECURSIVE SkipDigits(_, _)
SkipDigits(s, i) ==
  IF i <= Len(s) /\ IsDigit(s[i]) THEN SkipDigits(s, i + 1) ELSE i

HasSpeakerWord(s, i) ==
  /\ i + Len(SpeakerWord) - 1 <= Len(s)
  /\ \A k \in 1..Len(SpeakerWord) : Lower(s[i + k - 1]) = SpeakerWord[k]

\* _SPEAKER_LINE_RE.match(line) for a line without line breaks:
\* ^\s*Speaker\s*(\d+)\s*:\s*(.*)$ with group(1) and group(2)
NoMatch == [matched |-> FALSE, group1 |-> <<>>, group2 |-> <<>>]
SpeakerLineMatch(s) ==
  LET a == SkipSpace(s, 1)
      b == SkipSpace(s, a + Len(SpeakerWord))
      c == SkipDigits(s, b)
      d == SkipSpace(s, c)
      e == SkipSpace(s, d + 1)
  IN IF /\ HasSpeakerWord(s, a)
        /\ c > b
        /\ d <= Len(s)
        /\ s[d] = ":"
     THEN [matched |-> TRUE, group1 |-> SubSeq(s, b, c - 1),
           group2 |-> SubSeq(s, e, Len(s))]
     ELSE NoMatch

\* int(match.group(1))
RECURSIVE int(_)
int(ds) ==
  IF ds = <<>> THEN 0
  ELSE 10 * int(SubSeq(ds, 1, Len(ds) - 1))
       + ((CHOOSE k \in 1..Len(Digits) : Digits[k] = ds[Len(ds)]) - 1)

\* str(speaker_id) inside the f-string
RECURSIVE str(_)
str(n) ==
  IF n < 10 THEN <<Digits[n + 1]>>
  ELSE str(n \div 10) \o <<Digits[(n % 10) + 1]>>

\* f"Speaker {speaker_id}: {part}"
SpeakerLine(id, part) ==
  <<"S", "p", "e", "a", "k", "e", "r", " ">> \o str(id) \o <<":", " ">> \o part

\* looks_like_speaker_script(text): the first non-blank line, stripped,
\* matches the pattern
RECURSIVE FirstNonBlank(_)
FirstNonBlank(ls) ==
  IF ls = <<>> THEN <<>>
  ELSE IF strip(Head(ls)) # <<>> THEN strip(Head(ls))
  ELSE FirstNonBlank(Tail(ls))

looks_like_speaker_script(s) ==
  SpeakerLineMatch(FirstNonBlank(splitlines(s))).matched

\* ---------------------- normalize_cn_punctuation_to_en_comma_period
contains_cjk(s) == \E i \in 1..Len(s) : s[i] = CJKChar

period_like ==
  {"U+3002", "U+FF01", "U+FF1F", "U+FF1B", "U+2026", "U+FF0E", "!", "?", ";"}
comma_like ==
  {"U+FF0C", "U+3001", "U+FF1A", "U+2014", "U+FF0D", "U+FF5E", ":"}
delete_like ==
  {"U+FF08", "U+FF09", "(", ")", "U+3010", "U+3011", "[", "]", "{", "}",
   "U+300C", "U+300D", "U+300E", "U+300F", "U+300A", "U+300B",
   "U+201C", "U+201D", "U+2018", "U+2019", "\"", "'"}

\* the character loop
RECURSIVE MapPunct(_)
MapPunct(s) ==
  IF s = <<>> THEN <<>>
  ELSE LET ch == Head(s) IN
       (IF ch \in delete_like THEN <<>>
        ELSE IF ch \in comma_like THEN <<",">>
        ELSE IF ch \in period_like THEN <<".">>
        ELSE IF ch \in {"\r", "\n"} THEN <<".">>
        ELSE <<ch>>) \o MapPunct(Tail(s))

\* the nearest non-blank neighbours of position i
RECURSIVE NextNonSpace(_, _)
NextNonSpace(s, i) ==
  IF i + 1 <= Len(s) /\ IsSpace(s[i + 1]) THEN NextNonSpace(s, i + 1) ELSE i + 1

RECURSIVE PrevNonSpace(_, _)
PrevNonSpace(s, i) ==
  IF i - 1 >= 1 /\ IsSpace(s[i - 1]) THEN PrevNonSpace(s, i - 1) ELSE i - 1

\* re.sub(r"\s*p\s*", p, s): the blanks around every p go
RECURSIVE SqueezeFrom(_, _, _)
SqueezeFrom(s, p, i) ==
  IF i > Len(s) THEN <<>>
  ELSE LET n == NextNonSpace(s, i)
           m == PrevNonSpace(s, i)
           drop == /\ IsSpace(s[i])
                   /\ \/ n <= Len(s) /\ s[n] = p
                      \/ m >= 1 /\ s[m] = p
       IN (IF drop THEN <<>> ELSE <<s[i]>>) \o SqueezeFrom(s, p, i + 1)

\* re.sub(r"p{2,}", p, s): a run of p becomes one p
RECURSIVE CollapseFrom(_, _, _)
CollapseFrom(s, p, i) ==
  IF i > Len(s) THEN <<>>
  ELSE (IF s[i] = p /\ i > 1 /\ s[i - 1] = p THEN <<>> ELSE <<s[i]>>)
       \o CollapseFrom(s, p, i + 1)

normalize_cn_punctuation_to_en_comma_period(s) ==
  IF s = <<>> THEN s
  ELSE LET a == MapPunct(s)
           b == SqueezeFrom(a, ",", 1)
           c == SqueezeFrom(b, ".", 1)
           d == CollapseFrom(c, ",", 1)
       IN CollapseFrom(d, ".", 1)

\* ------------------------------------- _get_script_line_max_chars
_DEFAULT_SCRIPT_LINE_MAX_CHARS == 150

\* an unset or empty variable and one that int() rejects give the default
_get_script_line_max_chars(env) ==
  IF env.kind = "int" THEN env.value ELSE _DEFAULT_SCRIPT_LINE_MAX_CHARS

\* --------------------------------------- _split_text_by_max_chars
_SPLIT_BREAK_CHARAlt == ","
_SPLIT_BREAK_CHAR == "."

\* if max_chars <= 0 or len(text) <= max_chars: return [text]
NoSplitAlt(t, max_chars) == Len(t) <= max_chars
NoSplit(t, max_chars) == max_chars <= 0 \/ Len(t) <= max_chars

\* min_cut = max(1, max_chars // 2)
MinCut(max_chars) == IF max_chars \div 2 > 1 THEN max_chars \div 2 ELSE 1

\* a slice bound as Python reads it: a negative one counts from the end,
\* and both are clipped to 0..len
SliceIndex(n, len) ==
  IF n < 0 THEN (IF n + len < 0 THEN 0 ELSE n + len)
  ELSE (IF n > len THEN len ELSE n)

\* s.rfind(c, start, end): the highest 0-based index in s[start:end] at
\* which c stands, or -1
rfind(s, c, start, end) ==
  LET lo == SliceIndex(start, Len(s))
      hi == SliceIndex(end, Len(s))
      hits == {k \in lo..(hi - 1) : s[k + 1] = c}
  IN IF hits = {} THEN -1 ELSE CHOOSE k \in hits : \A j \in hits : j <= k

\* a hard cut: cut_at = max_chars
HardCutAlt(max_chars) == max_chars + 1
HardCut(max_chars) == max_chars

\* cut_at of one loop iteration
CutAt(rem, max_chars) ==
  LET period_idx == rfind(rem, _SPLIT_BREAK_CHAR, MinCut(max_chars), max_chars)
  IN IF period_idx >= 0 THEN period_idx + 1 ELSE HardCut(max_chars)

\* remaining[:cut_at] and remaining[cut_at:]
SliceTo(s, n) == SubSeq(s, 1, SliceIndex(n, Len(s)))
SliceFrom(s, n) == SubSeq(s, SliceIndex(n, Len(s)) + 1, Len(s))

\* ------------------------------------------------- results of a call
NoText == [kind |-> "none", err |-> "", value |-> <<>>]
TextReturned(v) == [kind |-> "ok", err |-> "", value |-> v]
ValueError(msg) == [kind |-> "error", err |-> msg, value |-> <<>>]

\* the frame of normalize_single_speaker_script is left
LocalsGone ==
  /\ lines' = <<>>
  /\ current_speaker_id' = NoSpeaker
  /\ speaker_ids' = {}
  /\ speaker_id' = NoSpeaker
  /\ out_lines' = <<>>
  /\ max_chars_per_line' = 0
  /\ text' = <<>>
  /\ remaining' = <<>>
  /\ parts' = <<>>

\* ------------------------------------------------- create_speech
\* script = payload.input.strip(); a text that does not look like a
\* speaker script becomes f"Speaker 0: {script}"
SpeechScript ==
  /\ tpc = "request"
  /\ LET s == strip(script) IN
       script' = IF ~looks_like_speaker_script(s) THEN SpeakerLine(0, s) ELSE s
  /\ tpc' = "call"
  /\ UNCHANGED <<env_max_chars, enable_cn_punct_normalize, lines,
                 current_speaker_id, speaker_ids, speaker_id, out_lines,
                 max_chars_per_line, text, remaining, parts, tres>>
  /\ UNCHANGED <<now, cfgVars, mgrVars, appVars>>

\* ------------------------------- normalize_single_speaker_script
\* the empty test and the set-up of the locals
NormalizeBegin ==
  /\ tpc = "call"
  /\ IF script = <<>> \/ strip(script) = <<>>
     THEN /\ tres' = ValueError("input is empty")
          /\ tpc' = "returned"
          /\ UNCHANGED <<lines, max_chars_per_line>>
     ELSE /\ lines' = splitlines(script)
          /\ max_chars_per_line' = _get_script_line_max_chars(env_max_chars)
          /\ tpc' = "lines"
          /\ UNCHANGED tres
  /\ UNCHANGED <<env_max_chars, enable_cn_punct_normalize, script,
                 current_speaker_id, speaker_ids, speaker_id, out_lines,
                 text, remaining, parts>>
  /\ UNCHANGED <<now, cfgVars, mgrVars, appVars>>

\* if len(speaker_ids) > 1: raise ValueError
MultiSpeakerAlt(ids) == FALSE
MultiSpeaker(ids) == Cardinality(ids) > 1

\* one iteration of `for raw_line in script.splitlines()`, up to the call
\* of _split_text_by_max_chars, whose early return is taken here
NormalizeLine ==
  /\ tpc = "lines"
  /\ lines # <<>>
  /\ LET line == strip(Head(lines))
         match == SpeakerLineMatch(line)
         sid == IF match.matched THEN int(match.group1) ELSE current_speaker_id
         txt == IF match.matched THEN strip(match.group2) ELSE line
         norm == IF enable_cn_punct_normalize /\ contains_cjk(txt)
                 THEN normalize_cn_punctuation_to_en_comma_period(txt)
                 ELSE txt
         cleaned == strip(norm)
     IN IF line = <<>>
        THEN /\ lines' = Tail(lines)
             /\ UNCHANGED <<tpc, current_speaker_id, speaker_ids, speaker_id,
                            out_lines, max_chars_per_line, text, remaining,
                            parts, tres>>
        ELSE IF ~match.matched /\ current_speaker_id = NoSpeaker
        THEN /\ tres' = ValueError("Invalid script line (missing Speaker prefix)")
             /\ tpc' = "returned"
             /\ LocalsGone
        ELSE IF MultiSpeaker(speaker_ids \cup {sid})
        THEN /\ tres' = ValueError("Multi-speaker script is not supported")
             /\ tpc' = "returned"
             /\ LocalsGone
        ELSE /\ lines' = Tail(lines)
             /\ current_speaker_id' = sid
             /\ speaker_ids' = speaker_ids \cup {sid}
             /\ speaker_id' = sid
             /\ IF cleaned = <<>>
                THEN UNCHANGED <<tpc, text, remaining, parts>>
                ELSE /\ text' = cleaned
                     /\ IF NoSplit(cleaned, max_chars_per_line)
                        THEN /\ parts' = <<cleaned>>
                             /\ tpc' = "emit"
                             /\ UNCHANGED remaining
                        ELSE /\ parts' = <<>>
                             /\ remaining' = cleaned
                             /\ tpc' = "split"
             /\ UNCHANGED <<out_lines, max_chars_per_line, tres>>
  /\ UNCHANGED <<env_max_chars, enable_cn_punct_normalize, script>>
  /\ UNCHANGED <<now, cfgVars, mgrVars, appVars>>

\* one iteration of `while len(remaining) > max_chars`; the iteration that
\* leaves the loop also runs `if remaining: parts.append(remaining)`
SplitStep ==
  /\ tpc = "split"
  /\ LET cut_at == CutAt(remaining, max_chars_per_line)
         head == strip(SliceTo(remaining, cut_at))
         parts1 == IF head # <<>> THEN Append(parts, head) ELSE parts
         rest == strip(SliceFrom(remaining, cut_at))
     IN IF rest = <<>> \/ ~(Len(rest) > max_chars_per_line)
        THEN /\ parts' = (IF rest # <<>> THEN Append(parts1, rest) ELSE parts1)
             /\ remaining' = <<>>
             /\ tpc' = "emit"
        ELSE /\ parts' = parts1
             /\ remaining' = rest
             /\ UNCHANGED tpc
  /\ UNCHANGED <<env_max_chars, enable_cn_punct_normalize, script, lines,
                 current_speaker_id, speaker_ids, speaker_id, out_lines,
                 max_chars_per_line, text, tres>>
  /\ UNCHANGED <<now, cfgVars, mgrVars, appVars>>

\* for part in <the returned parts>: out_lines.append(f"Speaker {id}: {part}")
EmitLines ==
  /\ tpc = "emit"
  /\ out_lines' = out_lines \o
                    [i \in 1..Len(parts) |-> SpeakerLine(speaker_id, parts[i])]
  /\ parts' = <<>>
  /\ text' = <<>>
  /\ tpc' = "lines"
  /\ UNCHANGED <<env_max_chars, enable_cn_punct_normalize, script, lines,
                 current_speaker_id, speaker_ids, speaker_id,
                 max_chars_per_line, remaining, tres>>
  /\ UNCHANGED <<now, cfgVars, mgrVars, appVars>>

\* after the loop: no line at all is an error, else the joined lines
NormalizeEnd ==
  /\ tpc = "lines"
  /\ lines = <<>>
  /\ tres' = IF out_lines = <<>>
             THEN ValueError("No valid content found in input.")
             ELSE TextReturned(join(out_lines))
  /\ tpc' = "returned"
  /\ LocalsGone
  /\ UNCHANGED <<env_max_chars, enable_cn_punct_normalize, script>>
  /\ UNCHANGED <<now, cfgVars, mgrVars, appVars>>

\* ------------------------------------------------------------ SpecText
\* the texts: one speaker line with every body up to MaxTextLen, and
\* scripts of up to MaxLines lines put together from the pieces below
SplitAlphabet == {"A", ".", ",", " "}
SplitBodies == UNION {[1..k -> SplitAlphabet] : k \in 0..MaxTextLen}
EnvChoices == {EnvUnset, EnvInvalid} \cup {EnvInt(n) : n \in (-1)..MaxChars}

LinePrefixes ==
  { <<>>,
    <<"S", "p", "e", "a", "k", "e", "r", " ", "0", ":", " ">>,
    <<"s", "p", "e", "a", "k", "e", "r", "1", ":">>,
    <<" ", "S", "P", "E", "A", "K", "E", "R", " ", "0", "1", " ", ":", " ">>,
    <<"S", "p", "e", "a", "k", "e", "r", ":">> }
LineBodies ==
  { <<>>, <<" ">>, <<"A", "A", "A">>, <<CJKChar, " ", "!", "!", "(">> }
ScriptLines == {p \o b : p \in LinePrefixes, b \in LineBodies}
Scripts == {join(ls) : ls \in UNION {[1..k -> ScriptLines] : k \in 0..MaxLines}}

TextInit ==
  /\ ManagerInit
  /\ AppStateInit
  /\ models_on_disk = {"vibevoice-1.5b"}
  /\ max_loaded_models = ClampMaxLoaded(1)
  /\ idle_unload_seconds = 15 * 60
  /\ model_id = "vibevoice-1.5b"
  /\ exit_on_idle_seconds = 0
  /\ preload_on_startup = FALSE
  /\ warmup_on_preload = FALSE
  /\ TextLocalsIdle
  /\ \/ /\ \E b \in SplitBodies : script = SpeakerLine(1, b)
        /\ env_max_chars \in EnvChoices
        /\ enable_cn_punct_normalize = FALSE
        /\ tpc = "call"
     \/ /\ script \in Scripts
        /\ env_max_chars \in {EnvUnset, EnvInt(2)}
        /\ enable_cn_punct_normalize \in BOOLEAN
        /\ tpc \in {"request", "call"}

TextNext ==
  \/ SpeechScript
  \/ NormalizeBegin
  \/ NormalizeLine
  \/ SplitStep
  \/ EmitLines
  \/ NormalizeEnd

SpecText == TextInit /\ [][TextNext]_vars

\* =================================================================
\* Properties of the model manager (checked under SpecMgr)
\* =================================================================
Ids(items) == {items[i].model_id : i \in 1..Len(items)}

\* C1: in every reachable state, also between the eviction and the insertion
\* of a get call, the loaded mapping has at most max_loaded_models entries,
\* and max_loaded_models is at least 1.
Thm_C1 ==
  /\ max_loaded_models >= 1
  /\ Len(loaded) <= max_loaded_models

\* a get call for an unloaded model arrives while the mapping is full
Wit_C1 ==
  \E t \in Threads :
    /\ mpc[t] = "get_evict"
    /\ Len(loaded) = max_loaded_models
    /\ max_loaded_models = 2

\* C4 (the claim as stated): while a get call for a supported model whose
\* path does not exist is running, the loaded mapping never changes, and the
\* call ends with FileNotFoundError.
Cex_C4 ==
  [][\A t \in Threads :
       (mpc[t] = "get_evict" /\ marg[t] \in ModelIds \ models_on_disk)
         => /\ loaded' = loaded
            /\ (mpc'[t] = "returned" => mres'[t] = Raised("FileNotFoundError"))
    ]_vars

\* C5: a capacity eviction inside get happens only when the mapping is full,
\* removes exactly one entry, that entry has the smallest last_used_at of all
\* loaded entries and is the first such entry in insertion order, and the
\* requested model is not in the mapping when the eviction is made.
Thm_C5 ==
  [][\A t \in Threads :
       (mpc[t] = "get_evict" /\ loaded' # loaded)
         => /\ Len(loaded) = max_loaded_models
            /\ marg[t] \notin Ids(loaded) \cup Ids(loaded')
            /\ \E i \in 1..Len(loaded) :
                 /\ loaded' = [j \in 1..(Len(loaded) - 1) |->
                                 IF j < i THEN loaded[j] ELSE loaded[j + 1]]
                 /\ \A j \in 1..Len(loaded) :
                      loaded[j].last_used_at >= loaded[i].last_used_at
                 /\ \A j \in 1..(i - 1) :
                      loaded[j].last_used_at > loaded[i].last_used_at
    ]_vars

\* a get call has just evicted an entry that tied on last_used_at with an
\* entry that stays loaded
Wit_C5 ==
  \E t \in Threads :
    /\ mpc[t] = "get_evict"
    /\ mlru[t] # NoEntry
    /\ \E e \in Range(loaded) : e.last_used_at = mlru[t].last_used_at

\* C6: a maybe_unload_idle call that returns has removed exactly the entries
\* with now - last_used_at >= idle_unload_seconds (now as read by the call),
\* returns exactly their model ids, and leaves every other entry as it was.
Thm_C6 ==
  [][\A t \in Threads :
       (mpc[t] = "unload_run" /\ mres'[t].kind = "list")
         => /\ Range(loaded') \subseteq Range(loaded)
            /\ Len(loaded') = Cardinality(Range(loaded'))
            /\ \A e \in Range(loaded) :
                 (e \notin Range(loaded'))
                   <=> (mnow[t] - e.last_used_at >= idle_unload_seconds)
            /\ Range(mres'[t].ids) = Ids(loaded) \ Ids(loaded')
            /\ Len(mres'[t].ids) = Len(loaded) - Len(loaded')
    ]_vars

\* a maybe_unload_idle call returned one model id and kept another entry
\* that was used less than idle_unload_seconds before the call's `now`
Wit_C6 ==
  \E t \in Threads :
    /\ mpc[t] = "returned"
    /\ mres[t].kind = "list"
    /\ Len(mres[t].ids) = 1
    /\ lock = {}
    /\ \E e \in Range(loaded) :
         /\ e.model_id # mres[t].ids[1]
         /\ mnow[t] - e.last_used_at < idle_unload_seconds
         /\ e.last_used_at <= mnow[t]

\* C7: a get call that finds its model loaded returns the handle of the
\* loaded entry, does not invoke the load path, and changes nothing in the
\* mapping but that entry's last_used_at, which becomes the current time and
\* never decreases; the handles of the loaded entries are those of distinct
\* load-path invocations.
Thm_C7 ==
  /\ [][\A t \in Threads :
          (mpc[t] = "get_lock" /\ mpc'[t] # "get_lock"
             /\ marg[t] \in Ids(loaded))
            => \E i \in 1..Len(loaded) :
                 /\ loaded[i].model_id = marg[t]
                 /\ mpc'[t] = "returned"
                 /\ mres'[t] = Returned(loaded[i].handle)
                 /\ loadCalls' = loadCalls
                 /\ Len(loaded') = Len(loaded)
                 /\ \A j \in 1..Len(loaded) : j # i => loaded'[j] = loaded[j]
                 /\ loaded'[i].model_id = loaded[i].model_id
                 /\ loaded'[i].handle = loaded[i].handle
                 /\ loaded'[i].last_used_at = now
                 /\ loaded'[i].last_used_at >= loaded[i].last_used_at
       ]_vars
  /\ [](\A i, j \in 1..Len(loaded) :
          /\ loaded[i].handle \in 1..loadCalls
          /\ (i # j => loaded[i].handle # loaded[j].handle
                       /\ loaded[i].model_id # loaded[j].model_id))

\* two get calls returned the same handle after a single load, the second
\* one later than the load, with another model loaded next to it
Wit_C7 ==
  /\ mpc[1] = "returned" /\ mpc[2] = "returned"
  /\ mres[1].kind = "handle" /\ mres[2] = mres[1]
  /\ marg[1] = marg[2]
  /\ \E e \in Range(loaded) :
       /\ e.handle = mres[1].handle
       /\ e.last_used_at = StartTime + 1
       /\ loadCalls = 2
       /\ Len(loaded) = 2

\* C8: with max_loaded_models = 1 at most one model is loaded, the mapping is
\* empty whenever a load begins (the previous model was evicted before), and
\* a get call that misses and succeeds has run the load path anew: its handle
\* is that of a new from_pretrained and the mapping holds only its model.
Thm_C8 ==
  /\ [](max_loaded_models = 1 =>
          /\ Len(loaded) <= 1
          /\ \A t \in Threads : mpc[t] = "get_load" => loaded = <<>>)
  /\ [][\A t \in Threads :
          (max_loaded_models = 1 /\ mpc[t] = "get_load"
             /\ mres'[t].kind = "handle")
            => /\ loadCalls' = loadCalls + 1
               /\ mres'[t].handle = loadCalls'
               /\ \A u \in Threads \ {t} : mres[u].handle # mres'[t].handle
               /\ Len(loaded') = 1
               /\ loaded'[1].model_id = marg[t]
               /\ loaded'[1].handle = mres'[t].handle
       ]_vars

\* A was loaded (handle 1), B was acquired and evicted it (handle 2), and a
\* later get of A evicted B and loaded A again (handle 3)
Wit_C8 ==
  /\ max_loaded_models = 1
  /\ mpc[1] = "returned" /\ mpc[2] = "returned"
  /\ marg[1] = marg[2]
  /\ mres[1] = Returned(1)
  /\ mres[2] = Returned(3)
  /\ mlru[2].handle = 2
  /\ mlru[2].model_id # marg[2]
  /\ Ids(loaded) = {marg[2]}

\* =================================================================
\* Properties of the application (checked under Spec)
\* =================================================================
\* thread t is inside _run_inference
RunningInference(t) ==
  \/ t \in Requests /\ rpc[t] \in {"job_get", "generate"}
  \/ t = StartupThread /\ spc \in {"warmup_get", "warmup_generate"}

\* request r holds or waits for _generation_lock
InSpeechSection(r) ==
  rpc[r] \in {"wait_slot", "job_get", "generate", "job_done", "job_raised"}

\* C2: at most one thread is inside _run_inference at any time, however many
\* speech requests wait for _generation_lock.
Thm_C2 == Cardinality({t \in Threads : RunningInference(t)}) <= 1

\* a job is generating while another speech request is queued on the lock
Wit_C2 ==
  /\ \E r \in Requests : rpc[r] = "generate"
  /\ slot_waiters # <<>>

\* C3 (the claim as stated): the LoadedModel a running _run_inference got
\* from get is still an entry of the loaded mapping while the job uses it.
Cex_C3 ==
  \A t \in Threads :
    rhandle[t] # 0 => \E e \in Range(loaded) : e.handle = rhandle[t]

\* the step in which _maintenance_loop evaluates its exit tests, and the
\* `now` of that iteration
ExitTestStep ==
  \/ wpc = "ready" /\ wpc' \in {"sleep", "done"}
  \/ wpc = "unload" /\ wpc' \in {"sleep", "done"}
TickNow == IF wpc = "unload" THEN wnow ELSE now

\* C9: whenever _request_process_exit is called, _active_user_requests is 0,
\* no request holds or waits for _generation_lock, and _seen_user_request is
\* true.
Thm_C9 ==
  [][termRequests' # termRequests
       => /\ active_user_requests = 0
          /\ seen_user_request
          /\ slot = {} /\ slot_waiters = <<>>
          /\ \A r \in Requests : ~InSpeechSection(r)
    ]_vars

\* the process exit was requested after a speech request had loaded the
\* model and finished
Wit_C9 ==
  /\ termRequests = 1
  /\ ~preload_on_startup
  /\ loadCalls >= 1
  /\ \E r \in Requests : rpc[r] = "done"

\* C10: an iteration of the maintenance loop that finds exit-on-idle enabled,
\* a request seen, no active request and now - _last_user_request_at >=
\* exit_on_idle_seconds calls _request_process_exit and ends the loop; the
\* call is made at most once, exactly when the loop has ended, and the ended
\* loop makes no further call, idle-unload check or iteration.
Thm_C10 ==
  /\ [][(/\ ExitTestStep
         /\ exit_on_idle_seconds > 0
         /\ seen_user_request
         /\ active_user_requests = 0
         /\ TickNow - last_user_request_at >= exit_on_idle_seconds)
          => (termRequests' = termRequests + 1 /\ wpc' = "done")
       ]_vars
  /\ [](termRequests <= 1)
  /\ []((termRequests = 1) <=> (wpc = "done"))
  /\ [][wpc = "done"
          => /\ wpc' = "done"
             /\ termRequests' = termRequests
             /\ mpc'[LoopThread] = mpc[LoopThread]
             /\ last_unload_checked_at' = last_unload_checked_at
             /\ wnow' = wnow
       ]_vars

\* the exit was requested and time went on without another iteration
Wit_C10 ==
  /\ termRequests = 1
  /\ wpc = "done"
  /\ now - last_user_request_at > exit_on_idle_seconds
  /\ now > last_unload_checked_at

\* C11: with exit-on-idle disabled (VIBEVOICE_EXIT_ON_IDLE_SECONDS unset, 0
\* or negative, all read as 0) _request_process_exit is never called and the
\* maintenance loop never ends: every iteration goes back to sleep, and an
\* iteration that finds the 30 s interval elapsed calls maybe_unload_idle.
Thm_C11 ==
  /\ [](exit_on_idle_seconds <= 0 => (termRequests = 0 /\ wpc # "done"))
  /\ [][(exit_on_idle_seconds <= 0 /\ ExitTestStep) => wpc' = "sleep"]_vars
  /\ [][(exit_on_idle_seconds <= 0 /\ wpc = "ready" /\ wpc' # "ready"
           /\ now - last_unload_checked_at >= UnloadCheckInterval)
          => (/\ mpc[LoopThread] = "idle"
              /\ mpc'[LoopThread] = "unload_lock"
              /\ last_unload_checked_at' = now)
       ]_vars

\* exit-on-idle is disabled and an iteration has just run its idle-unload
\* check and gone back to sleep although a request was seen, none is active
\* and the last activity is at least a second old
Wit_C11 ==
  /\ exit_on_idle_seconds = 0
  /\ wpc = "sleep"
  /\ last_unload_checked_at = now
  /\ seen_user_request
  /\ active_user_requests = 0
  /\ now - last_user_request_at >= 1

\* C12: when _run_inference (or the model_manager.get inside it) raises
\* while the request holds _generation_lock, the lock is released and the
\* first queued request can take it, the exception leaves create_speech as
\* it was raised, and the request never starts a job again.
Thm_C12 ==
  /\ [][\A r \in Requests :
          (rpc[r] = "job_raised" /\ rpc'[r] # "job_raised")
            => (/\ slot = {r}
                /\ slot' = {}
                /\ rerr[r] # ""
                /\ rerr'[r] = rerr[r]
                /\ rpc'[r] = "finishing")
       ]_vars
  /\ [][\A r \in Requests :
          (rpc[r] = "job_get" /\ rpc'[r] = "job_raised")
            => (mres[r].kind = "error" /\ rerr'[r] = mres[r].err)
       ]_vars
  /\ [](\A r \in Requests :
          (slot = {} /\ slot_waiters # <<>> /\ Head(slot_waiters) = r
             /\ EventLoopFree)
            => ENABLED SlotGrant(r))
  /\ [][\A r \in Requests :
          rpc[r] \in {"job_raised", "finishing", "done"}
            => (/\ rpc'[r] \notin {"wait_slot", "job_get", "generate"}
                /\ mpc'[r] = mpc[r]
                /\ marg'[r] = marg[r])
       ]_vars

\* the job of the first request raised, the lock has just been released and
\* the second request is queued for it
Wit_C12 ==
  /\ rpc[1] = "finishing"
  /\ rerr[1] # ""
  /\ slot = {}
  /\ slot_waiters = <<2>>
  /\ rpc[2] = "wait_slot"

\* C13: a failure of the memory reclamation of an eviction (gc.collect /
\* torch.cuda.empty_cache in _unload_locked) is never surfaced: no get and
\* no maybe_unload_idle call ends with that failure as its exception, so an
\* acquire goes on to its load and an idle unload to its remaining entries.
Cex_C13 ==
  \A t \in Threads :
    mres[t].kind = "error" => mres[t].err # "ReclaimError"

\* C14: an exception raised by maybe_unload_idle does not stop
\* _maintenance_loop: the same iteration goes on to the exit tests with its
\* own `now`, a sleeping loop is woken by the clock and its next iteration
\* can run, and the loop ends only by the call of _request_process_exit.
Thm_C14 ==
  /\ [][(wpc = "unload" /\ wpc' # "unload" /\ mres[LoopThread].kind = "error")
          => IF ShouldExit(wnow)
             THEN wpc' = "done" /\ termRequests' = termRequests + 1
             ELSE wpc' = "sleep" /\ termRequests' = termRequests
       ]_vars
  /\ [](wpc \in {"off", "sleep", "ready", "unload", "done"})
  /\ [](wpc = "done" <=> termRequests = 1)
  /\ [][wpc' = "done" /\ wpc # "done" => ExitTestStep /\ ShouldExit(TickNow)]_vars
  /\ [][wpc = "sleep" /\ now' # now => wpc' = "ready"]_vars
  /\ [](wpc = "ready" => ENABLED Tick)

\* maybe_unload_idle has raised inside an iteration whose exit tests all
\* pass: the iteration is about to swallow the exception and go on
Wit_C14 ==
  /\ wpc = "unload"
  /\ mpc[LoopThread] = "returned"
  /\ mres[LoopThread] = Raised("ReclaimError")
  /\ ShouldExit(wnow)

\* the requests the middleware has started and not yet finished, and among
\* them those it tracks for idleness
InFlight == {r \in Requests : rpc[r] \notin {"new", "done"}}
TrackedInFlight == {r \in InFlight : TrackForIdle(rpath[r])}

\* C15: _active_user_requests is never negative and equals the number of
\* tracked requests that have started and not finished; the start of a
\* tracked request adds one and its completion, with or without an exception
\* of the handler, takes one away.
Thm_C15 ==
  /\ [](active_user_requests >= 0)
  /\ [](active_user_requests = Cardinality(TrackedInFlight))
  /\ [][\A r \in Requests :
          (r \notin InFlight /\ r \in TrackedInFlight')
            => active_user_requests' = active_user_requests + 1
       ]_vars
  /\ [][\A r \in Requests :
          (r \in TrackedInFlight /\ r \notin InFlight')
            => active_user_requests' = active_user_requests - 1
       ]_vars
  /\ [][active_user_requests' # active_user_requests
          => Cardinality(InFlight') # Cardinality(InFlight)]_vars

\* one tracked request has completed while a second one, whose job raised,
\* is still on its way out through the middleware
Wit_C15 ==
  /\ rpc[1] = "done"
  /\ rpc[2] = "finishing"
  /\ rerr[2] # ""
  /\ seen_user_request
  /\ active_user_requests = 1

\* C16: a call of _request_process_exit first sends SIGTERM to its own
\* process; os._exit is called if and only if that os.kill raised, so each
\* call takes effect by exactly one of the two paths, and nothing else ever
\* terminates the process.
Thm_C16 ==
  /\ [](termRequests = 0 => exitLog = <<>>)
  /\ [](termRequests > 0 =>
          exitLog \in {<<"SIGTERM">>, <<"kill_raised", "_exit">>})
  /\ []((\E i \in 1..Len(exitLog) : exitLog[i] = "_exit")
          <=> (exitLog # <<>> /\ exitLog[1] = "kill_raised"))
  /\ [][exitLog' # exitLog
          => (/\ termRequests' = termRequests + 1
              /\ ExitTestStep
              /\ \/ exitLog' = Append(exitLog, "SIGTERM")
                 \/ exitLog' = exitLog \o <<"kill_raised", "_exit">>)
       ]_vars
  /\ [][termRequests' # termRequests => exitLog' # exitLog]_vars

\* os.kill raised inside _request_process_exit and the fallback has ended
\* the process
Wit_C16 ==
  /\ termRequests = 1
  /\ exitLog = <<"kill_raised", "_exit">>
  /\ ~Alive

\* =================================================================
\* Properties of the script normalization (checked under SpecText)
\* =================================================================
\* the position "emit" is the return of _split_text_by_max_chars(text,
\* max_chars_per_line): `parts` is what it returned
SplitReturned == tpc = "emit"
NoWhitespace(s) == \A i \in 1..Len(s) : ~IsSpace(s[i])

\* C17: for a positive max_chars every part returned for a line's text is
\* at most max_chars long, every part is emitted as a line "Speaker N: part"
\* with the N of the line, and for a text without whitespace the parts put
\* together in order are the text.
Thm_C17 ==
  /\ []((SplitReturned /\ max_chars_per_line > 0)
          => \A i \in 1..Len(parts) : Len(parts[i]) <= max_chars_per_line)
  /\ []((SplitReturned /\ max_chars_per_line > 0 /\ NoWhitespace(text))
          => concat(parts) = text)
  /\ [][(SplitReturned /\ max_chars_per_line > 0)
          => (/\ Len(out_lines') = Len(out_lines) + Len(parts)
              /\ SubSeq(out_lines', 1, Len(out_lines)) = out_lines
              /\ \A i \in 1..Len(parts) :
                   LET l == out_lines'[Len(out_lines) + i]
                       m == SpeakerLineMatch(l)
                   IN /\ SubSeq(l, 1, 8) = <<"S", "p", "e", "a", "k", "e", "r", " ">>
                      /\ m.matched
                      /\ int(m.group1) = speaker_id
                      /\ speaker_id = current_speaker_id
                      /\ m.group2 = parts[i])
       ]_vars

\* a text of five characters without whitespace came back in three parts
\* under max_chars 2, one of them cut after a period
Wit_C17 ==
  /\ SplitReturned
  /\ max_chars_per_line = 2
  /\ text = <<"A", ".", "A", "A", "A">>
  /\ Len(parts) = 3

\* the call _split_text_by_max_chars(cleaned, max_chars_per_line) of a line
LineSplitCall == tpc = "lines" /\ tpc' \in {"emit", "split"}
WithinLimit(t) == max_chars_per_line <= 0 \/ Len(t) <= max_chars_per_line

\* C18: a line whose text is not longer than max_chars, and every line when
\* max_chars is 0 or negative, is returned as the single part [text] and
\* gives exactly one output line; an unset or non-integer
\* VIBEVOICE_SCRIPT_LINE_MAX_CHARS means 150.
Thm_C18 ==
  /\ [][(LineSplitCall /\ WithinLimit(text'))
          => (tpc' = "emit" /\ parts' = <<text'>>)]_vars
  /\ []((SplitReturned /\ WithinLimit(text)) => parts = <<text>>)
  /\ [][(SplitReturned /\ WithinLimit(text))
          => out_lines' = Append(out_lines, SpeakerLine(speaker_id, text))]_vars
  /\ [](tpc \in {"lines", "split", "emit"} =>
          max_chars_per_line = (IF env_max_chars.kind = "int"
                                THEN env_max_chars.value ELSE 150))

\* with max_chars 0 a text of five characters came back unsplit
Wit_C18 ==
  /\ SplitReturned
  /\ env_max_chars = EnvInt(0)
  /\ Len(text) = MaxTextLen
  /\ parts = <<text>>

\* the 1-based positions of the periods of s whose 0-based index lies in
\* [max(1, max_chars // 2), max_chars)
PeriodsInWindow(s, max_chars) ==
  {i \in 1..Len(s) :
     /\ s[i] = "."
     /\ i - 1 >= (IF max_chars \div 2 > 1 THEN max_chars \div 2 ELSE 1)
     /\ i - 1 < max_chars}

\* C19: while the remaining text is longer than max_chars, one loop
\* iteration cuts just after the last period of the window, or at exactly
\* max_chars characters when the window holds no period; what is before the
\* cut becomes the next part and what is after it the remaining text,
\* both stripped.
Thm_C19 ==
  /\ [](tpc = "split" =>
          (max_chars_per_line > 0 /\ Len(remaining) > max_chars_per_line))
  /\ [][tpc = "split" =>
          LET w == PeriodsInWindow(remaining, max_chars_per_line)
              cut == IF w # {} THEN CHOOSE i \in w : \A j \in w : j <= i
                     ELSE max_chars_per_line
              head == strip(SubSeq(remaining, 1, cut))
              rest == strip(SubSeq(remaining, cut + 1, Len(remaining)))
          IN /\ parts' = parts
                  \o (IF head # <<>> THEN <<head>> ELSE <<>>)
                  \o (IF tpc' = "emit" /\ rest # <<>> THEN <<rest>> ELSE <<>>)
             /\ tpc' = "split" => remaining' = rest
             /\ tpc' = "emit" <=> Len(rest) <= max_chars_per_line
       ]_vars

\* under max_chars 4 the text ".A.,A" was cut after its second period, the
\* one inside the window, and not at the comma or at four characters
Wit_C19 ==
  /\ SplitReturned
  /\ max_chars_per_line = 4
  /\ text = <<".", "A", ".", ",", "A">>
  /\ parts = << <<".", "A", ".">>, <<",", "A">> >>

\* what a script says, read off its text: its stripped lines, the speaker
\* ids of the lines that carry a Speaker prefix, the text of a line, and
\* the output lines of a result
StrippedLines(s) ==
  LET ls == splitlines(s) IN {strip(ls[i]) : i \in 1..Len(ls)}
SpeakerIdsOf(s) ==
  {int(SpeakerLineMatch(l).group1) :
     l \in {x \in StrippedLines(s) : SpeakerLineMatch(x).matched}}
LineText(l) ==
  LET m == SpeakerLineMatch(l) IN IF m.matched THEN strip(m.group2) ELSE l
MixesSpeakers(s) == Cardinality(SpeakerIdsOf(s)) > 1
EmptyAfterTrim(s) == strip(s) = <<>>
NoContent(s) == \A l \in StrippedLines(s) : LineText(l) = <<>>
LeadingUnprefixed(s) ==
  LET f == FirstNonBlank(splitlines(s))
  IN f # <<>> /\ ~SpeakerLineMatch(f).matched
OutputWellFormed(s, v) ==
  /\ v # <<>>
  /\ \A l \in StrippedLines(v) :
       LET m == SpeakerLineMatch(l)
       IN /\ l \in {splitlines(v)[i] : i \in 1..Len(splitlines(v))}
          /\ m.matched
          /\ SpeakerIdsOf(s) = {int(m.group1)}
          /\ strip(m.group2) # <<>>

\* C20 as stated: normalize_single_speaker_script raises ValueError when
\* the script has lines of more than one speaker id, is empty after
\* trimming or yields no non-empty content, and otherwise returns lines that
\* all carry the one speaker id and a non-empty text.
Cex_C20 ==
  tpc = "returned" =>
    /\ tres.kind = "error" <=>
         (MixesSpeakers(script) \/ EmptyAfterTrim(script) \/ NoContent(script))
    /\ tres.kind = "ok" => OutputWellFormed(script, tres.value)

\* C20, amended: the call also raises ValueError when the first non-blank
\* line of the script carries no Speaker prefix; with that fourth case the
\* statement holds.  create_speech never passes such a script: it prefixes
\* "Speaker 0: " to a text that does not start with a Speaker line.
Thm_C20 ==
  /\ [](tpc = "returned" =>
          /\ tres.kind \in {"ok", "error"}
          /\ tres.kind = "error" <=>
               (\/ MixesSpeakers(script)
                \/ EmptyAfterTrim(script)
                \/ NoContent(script)
                \/ LeadingUnprefixed(script))
          /\ EmptyAfterTrim(script) => tres = ValueError("input is empty")
          /\ tres.kind = "ok" => OutputWellFormed(script, tres.value))
  /\ [][tpc = "request" => ~LeadingUnprefixed(script')]_vars

\* a direct call with a script whose first line has no Speaker prefix, but
\* with text and with a single speaker id further down, has raised
Wit_C20 ==
  /\ tpc = "returned"
  /\ tres = ValueError("Invalid script line (missing Speaker prefix)")
  /\ ~MixesSpeakers(script)
  /\ ~EmptyAfterTrim(script)
  /\ ~NoContent(script)
  /\ SpeakerIdsOf(script) = {1}

\* =================================================================
\* Properties of the application's concurrency
\* =================================================================
\* C21: the call of maybe_unload_idle by _maintenance_loop never leaves the
\* event loop blocked on the manager lock while a worker holds that lock
\* during a model load.
Cex_C21 ==
  ~(/\ wpc = "unload"
    /\ mpc[LoopThread] = "unload_lock"
    /\ \E t \in Threads \ {LoopThread} : lock = {t} /\ mpc[t] = "get_load")

\* C22: at most one load, capacity eviction or idle unload is in progress
\* at any time and it is run by the holder of the manager lock; every step
\* that changes the loaded mapping is taken by the thread that holds the
\* lock alone (the hit path of get takes and leaves it within the step),
\* while no other thread moves.
Thm_C22 ==
  /\ [](LET Writers ==
             {t \in Threads : mpc[t] \in {"get_evict", "get_load", "unload_run"}}
        IN /\ Cardinality(lock) <= 1
           /\ Cardinality(Writers) <= 1
           /\ Writers = lock)
  /\ [][loaded' # loaded =>
          \E t \in Threads :
            /\ \/ lock = {t} /\ mpc[t] \in {"get_evict", "get_load", "unload_run"}
               \/ lock = {} /\ lock' = {} /\ mpc[t] = "get_lock"
                            /\ mpc'[t] = "returned"
            /\ \A u \in Threads \ {t} : mpc'[u] = mpc[u] /\ mres'[u] = mres[u]
       ]_vars

\* one thread is at its load, with a model already loaded, while the
\* second thread waits at the lock for its own get or idle unload
Wit_C22 ==
  /\ \E t \in Threads : lock = {t} /\ mpc[t] = "get_load"
  /\ \E u \in Threads : mpc[u] \in {"get_lock", "unload_lock"}
  /\ loaded # <<>>

\* C23: for every speech request the steps come in this order: the request
\* takes _generation_lock, in that step its worker calls
\* model_manager.get(model_id), the job then goes on with the LoadedModel
\* that call returned, and the lock is released only after the job ended;
\* the worker (a thread other than the event-loop thread) is inside get or
\* the job only while its request holds the lock, that is from the start of
\* its job to the resumption of create_speech after it.
Thm_C23 ==
  /\ [](\A r \in Requests :
          rpc[r] \in {"job_get", "generate", "job_done", "job_raised"}
            <=> slot = {r})
  /\ [](\A r \in Requests :
          /\ mpc[r] # "idle" => rpc[r] = "job_get" /\ slot = {r}
          /\ rhandle[r] # 0 => rpc[r] = "generate" /\ slot = {r}
          /\ r # LoopThread)
  /\ [][\A r \in Requests :
          /\ (r \notin slot /\ r \in slot')
               => /\ rpc[r] \in {"handler", "wait_slot"}
                  /\ rpc'[r] = "job_get"
                  /\ mpc[r] = "idle" /\ mpc'[r] = "get_lock"
                  /\ marg'[r] = model_id
          /\ (rpc[r] # "generate" /\ rpc'[r] = "generate")
               => /\ rpc[r] = "job_get"
                  /\ mpc[r] = "returned" /\ mres[r].kind = "handle"
                  /\ rhandle'[r] = mres[r].handle
                  /\ slot' = {r}
          /\ (rpc[r] = "job_get" /\ rpc'[r] # "job_get")
               => /\ mpc[r] = "returned"
                  /\ rpc'[r] = (IF mres[r].kind = "handle"
                                THEN "generate" ELSE "job_raised")
          /\ (r \in slot /\ r \notin slot')
               => /\ rpc[r] \in {"job_done", "job_raised"}
                  /\ rpc'[r] = "finishing"
                  /\ mpc[r] = "idle" /\ rhandle[r] = 0
       ]_vars

\* after the first request ended, the second holds the lock and runs its
\* job with the LoadedModel that its own get returned
Wit_C23 ==
  /\ rpc[1] = "done"
  /\ rpc[2] = "generate"
  /\ slot = {2}
  /\ rhandle[2] # 0
  /\ \E e \in Range(loaded) : e.handle = rhandle[2]

\* C24: as long as the job of a request has not returned from generate, the
\* request holds _generation_lock: no other request starts or runs its job,
\* _active_user_requests stays above 0 and _request_process_exit is not
\* called; only the return (or exception) of the job ends this, so a job
\* that never returns keeps it so forever.
Thm_C24 ==
  /\ [](\A r \in Requests :
          rpc[r] = "generate" =>
            /\ slot = {r}
            /\ active_user_requests > 0
            /\ \A q \in Requests \ {r} :
                 /\ rpc[q] \notin {"job_get", "generate", "job_done", "job_raised"}
                 /\ mpc[q] = "idle")
  /\ [][\A r \in Requests :
          rpc[r] = "generate" =>
            /\ termRequests' = termRequests
            /\ exitLog' = exitLog
            /\ \A q \in Requests \ {r} :
                 rpc'[q] \notin {"job_get", "generate", "job_done", "job_raised"}
            /\ rpc'[r] \in {"generate", "job_done", "job_raised"}
            /\ rpc'[r] = "generate" => slot' = {r} /\ active_user_requests' > 0
       ]_vars

\* a job is still running when the idle window has long passed, with another
\* speech request queued behind it and the maintenance loop back at sleep
Wit_C24 ==
  /\ exit_on_idle_seconds = 1
  /\ \E r \in Requests :
       /\ rpc[r] = "generate"
       /\ now - last_user_request_at > exit_on_idle_seconds
       /\ \E q \in Requests \ {r} : slot_waiters = <<q>>
  /\ wpc = "sleep"
  /\ termRequests = 0

\* C25: when every job ends, a request that waits for _generation_lock gets
\* it in the end, and the waiting requests get it in the order in which they
\* started to wait: a request joins the queue at its end, the lock goes to
\* the head of the queue, and no arriving request takes the lock while
\* another one waits.
Thm_C25 ==
  /\ \A r \in QueueRequests : (rpc[r] = "wait_slot") ~> (slot = {r})
  /\ [][\A r \in QueueRequests :
          (r \notin slot /\ r \in slot') =>
            \/ /\ rpc[r] = "wait_slot"
               /\ slot = {}
               /\ slot_waiters # <<>> /\ Head(slot_waiters) = r
               /\ slot_waiters' = Tail(slot_waiters)
            \/ /\ rpc[r] = "handler"
               /\ slot = {}
               /\ slot_waiters = <<>> /\ slot_waiters' = <<>>
       ]_vars
  /\ [][slot_waiters' # slot_waiters =>
          \/ slot_waiters # <<>> /\ slot_waiters' = Tail(slot_waiters)
                                 /\ slot' = {Head(slot_waiters)}
          \/ \E r \in QueueRequests :
               /\ rpc[r] = "handler" /\ rpc'[r] = "wait_slot"
               /\ r \notin Range(slot_waiters)
               /\ slot_waiters' = Append(slot_waiters, r)
       ]_vars

\* the request that waited longest has got the lock from the first one and
\* started its job while the third still waits behind it
Wit_C25 ==
  /\ rpc[1] \in {"finishing", "done"}
  /\ slot = {2}
  /\ rpc[2] = "generate"
  /\ slot_waiters = <<3>>

\* C26: the first iteration of the maintenance loop calls maybe_unload_idle,
\* and a later iteration calls it exactly when at least 30 s have passed
\* since the iteration of the previous call, so two calls are never less
\* than 30 s apart; whether exit-on-idle is disabled and whether the exit
\* tests of the iteration `continue` early plays no part in it. An
\* iteration is the step that follows the sleep, a call the step in which
\* the loop thread enters maybe_unload_idle.
Thm_C26 ==
  /\ [][LET LoopIteration == wpc = "ready" /\ wpc' # "ready"
            UnloadCallStep ==
              mpc[LoopThread] = "idle" /\ mpc'[LoopThread] = "unload_lock"
        IN
        /\ LoopIteration =>
             /\ last_unload_checked_at = 0 => UnloadCallStep
             /\ UnloadCallStep <=>
                  now - last_unload_checked_at >= UnloadCheckInterval
        /\ UnloadCallStep =>
             /\ LoopIteration
             /\ last_unload_checked_at' = now
             /\ last_unload_checked_at # 0 =>
                  now - last_unload_checked_at >= UnloadCheckInterval
        /\ last_unload_checked_at' # last_unload_checked_at => UnloadCallStep
       ]_vars
  /\ [](last_unload_checked_at <= now)

\* the loop is inside its second call, 30 s after the first, while a request
\* is active and exit-on-idle is enabled
Wit_C26 ==
  /\ wpc = "unload"
  /\ last_unload_checked_at = StartTime + 1 + UnloadCheckInterval
  /\ exit_on_idle_seconds = 1
  /\ active_user_requests > 0

\* C27: a request to /healthz or /ping changes none of _seen_user_request,
\* _active_user_requests and _last_user_request_at, neither when it starts
\* nor when it ends; while only such requests have arrived no request counts
\* as seen and _request_process_exit is not called, and the first request
\* seen is one to another path. A request starts with the step of the
\* middleware up to call_next and ends with the step of its `finally`.
Thm_C27 ==
  /\ [][LET StartStep(r) == rpc[r] = "new" /\ rpc'[r] = "handler"
            FinishStep(r) == rpc[r] # "done" /\ rpc'[r] = "done"
        IN
        /\ \A r \in Requests :
             /\ (StartStep(r) /\ rpath'[r] \in HealthPaths) =>
                  UNCHANGED <<activityVars, termRequests, exitLog>>
             /\ (FinishStep(r) /\ rpath[r] \in HealthPaths) =>
                  UNCHANGED <<activityVars, termRequests, exitLog>>
        /\ (~seen_user_request /\ seen_user_request') =>
             \E r \in Requests : StartStep(r) /\ rpath'[r] \notin HealthPaths
       ]_vars
  /\ [](~seen_user_request
          => /\ active_user_requests = 0
             /\ last_user_request_at = StartTime
             /\ termRequests = 0)
  /\ [](active_user_requests =
          Cardinality({r \in Requests :
                         rpc[r] = "handler" /\ rpath[r] \notin HealthPaths}))

\* the exit was requested, a second after the first request, while a probe
\* of /ping that arrived after that request is still being served
Wit_C27 ==
  /\ rpc[1] = "done"
  /\ rpc[2] = "handler" /\ rpath[2] = "/ping"
  /\ termRequests = 1
  /\ now - last_user_request_at = exit_on_idle_seconds

\* C28: _last_user_request_at is set to the current time when a tracked
\* request starts and when it ends, and by nothing else, so that it is the
\* time of the most recent start or end of a tracked request; whenever
\* _request_process_exit is called, at least exit_on_idle_seconds have
\* passed since then; _seen_user_request, once true, stays true.
Thm_C28 ==
  /\ [][LET StartStep(r) == rpc[r] = "new" /\ rpc'[r] = "handler"
            FinishStep(r) == rpc[r] # "done" /\ rpc'[r] = "done"
        IN
        /\ \A r \in Requests :
             /\ (StartStep(r) /\ rpath'[r] \notin HealthPaths) =>
                  last_user_request_at' = now /\ seen_user_request'
             /\ (FinishStep(r) /\ rpath[r] \notin HealthPaths) =>
                  last_user_request_at' = now
        /\ last_user_request_at' # last_user_request_at =>
             \E r \in Requests :
               \/ StartStep(r) /\ rpath'[r] \notin HealthPaths
               \/ FinishStep(r) /\ rpath[r] \notin HealthPaths
       ]_vars
  /\ [][termRequests' # termRequests =>
          /\ exit_on_idle_seconds > 0
          /\ seen_user_request
          /\ TickNow - last_user_request_at >= exit_on_idle_seconds
          /\ now >= TickNow
          /\ UNCHANGED activityVars
       ]_vars
  /\ [][seen_user_request => seen_user_request']_vars
  /\ [](last_user_request_at <= now)

\* the exit was requested a second after the last tracked request ended,
\* a speech request having run its job before
Wit_C28 ==
  /\ termRequests = 1
  /\ \E r \in Requests : rpc[r] = "done" /\ rhandle[r] = 0 /\ loadCalls > 0
  /\ last_user_request_at = StartTime + 1
  /\ now = StartTime + 2
  /\ seen_user_request

\* C29: a get that raises (unsupported id, model directory missing, a load
\* that fails, or a reclamation that fails during the capacity eviction)
\* leaves the manager lock free and the mapping without an entry for the id
\* it was called with; every entry of the mapping is a whole LoadedModel of
\* a load that succeeded, and a thread that waits for the lock while it is
\* free can take it.
Thm_C29 ==
  /\ [][\A t \in Threads :
          (/\ mpc[t] \in {"get_lock", "get_evict", "get_load"}
           /\ mpc'[t] = "returned"
           /\ mres'[t].kind = "error") =>
            /\ lock = {t} /\ lock' = {}
            /\ marg[t] \notin Ids(loaded')
            /\ mres'[t].err \in {"ValueError", "FileNotFoundError",
                                 "LoadFailure", "ReclaimError"}
       ]_vars
  /\ [](\A t \in Threads : mpc[t] = "returned" => t \notin lock)
  /\ [](\A i \in 1..Len(loaded) :
          /\ loaded[i].model_id \in ModelIds \cap models_on_disk
          /\ loaded[i].handle \in 1..loadCalls
          /\ loaded[i].last_used_at \in StartTime..now
          /\ \A j \in 1..Len(loaded) :
               (i # j) => /\ loaded[i].model_id # loaded[j].model_id
                          /\ loaded[i].handle # loaded[j].handle)
  /\ [](\A u \in MgrThreads :
          /\ (lock = {} /\ mpc[u] = "get_lock") => ENABLED GetAcquire(u)
          /\ (lock = {} /\ mpc[u] = "unload_lock") => ENABLED UnloadAcquire(u))

\* the load of thread 1 failed, and the get of thread 2 for the same model,
\* which went on after it, loaded the model
Wit_C29 ==
  /\ mpc[1] = "returned" /\ mres[1] = Raised("LoadFailure")
  /\ mpc[2] = "returned" /\ mres[2] = Returned(2)
  /\ marg[1] = marg[2]
  /\ loadCalls = 2
  /\ lock = {}

\* C30: a worker is inside the manager only while its request holds
\* _generation_lock, the maintenance loop never takes or waits for
\* _generation_lock, and the holder of the manager lock waits for nothing:
\* it can always take its next step. Hence, when loads and jobs end, no
\* request, worker or maintenance loop waits forever: again and again a
\* state is reached in which no request waits for _generation_lock, no
\* thread waits for the manager lock and the event loop is not blocked.
Thm_C30 ==
  /\ [](\A r \in QueueRequests :
          (mpc[r] # "idle" \/ r \in lock) => slot = {r} /\ rpc[r] = "job_get")
  /\ [](/\ slot \subseteq QueueRequests
        /\ Range(slot_waiters) \subseteq QueueRequests \ slot
        /\ LoopThread \in lock => wpc = "unload")
  /\ [](\A t \in lock :
          /\ lock = {t}
          /\ ENABLED (GetEvict(t) \/ GetLoad(t) \/ UnloadRun(t)))
  /\ []<>(/\ slot_waiters = <<>>
          /\ \A t \in Threads : mpc[t] \notin {"get_lock", "unload_lock"}
          /\ EventLoopFree)

\* a request waits for _generation_lock, which the first request holds while
\* its worker loads the model under the manager lock, for which the
\* maintenance loop waits on the event-loop thread
Wit_C30 ==
  /\ slot = {1}
  /\ lock = {1} /\ mpc[1] = "get_load"
  /\ rpc[2] = "wait_slot"
  /\ wpc = "unload" /\ mpc[LoopThread] = "unload_lock"
====
